---- MODULE Spec2Model ----
(***************************************************************************)
(* Model of the appointment scheduling core of AI-Doctor-Scheduling:       *)
(* backend/services/scheduling.py (book_appointment, cancel_appointment),  *)
(* backend/services/ml_model.py (NoShowPredictor, load_model,              *)
(* build_features), the appointments table of backend/models.py and the    *)
(* transactional session of backend/utils/db.py.                           *)
(*                                                                         *)
(* Instants are whole seconds counted from 00:00:00 UTC of a Monday.       *)
(* book_appointment only ever compares a start with microsecond=0 against  *)
(* the clock, so the clock's sub-second part never decides a comparison    *)
(* (s <= now iff s <= floor(now), s > now + d iff s > floor(now) + d):     *)
(* `now` is the clock's whole second.                                      *)
(* Probabilities are integers in units of 1/100000: 0.5 is 50000, and      *)
(* round(proba, 4) yields a multiple of 10.                                *)
(***************************************************************************)
EXTENDS Integers, FiniteSets, Sequences, TLC

(***************************************************************************)
(* Bounds of the model                                                     *)
(***************************************************************************)
\* caller threads of the concurrent specification
NProcs == 2
\* seconds the clock may advance
MaxTicks == 2
\* calls (bookings and cancellations) started in one behaviour
MaxCalls == 3

(***************************************************************************)
(* Program constants                                                       *)
(***************************************************************************)
SLOT_INCREMENT_MINUTES == 15
MAX_BOOKING_DAYS_AHEAD == 90
\* the probability 1.0
ONE == 100000
\* probability = 0.5 when the prediction block of book_appointment raises
BOOKING_DEFAULT_PROBABILITY == ONE \div 2
\* proba = 0.1 when the predictor holds no usable model
PREDICT_FALLBACK_PROBA == ONE \div 10
\* {"probability": 0.0, "label": 0} when NoShowPredictor.predict catches
PREDICT_FAILED_PROBABILITY == 0
\* DummyModel.predict_proba returns [[0.9, 0.1]], DummyModel.predict returns [0]
DUMMY_PROBA == ONE \div 10
DUMMY_PREDICT == 0
\* label = int(proba >= 0.5)
LABEL_THRESHOLD == ONE \div 2
\* Doctor.consultation_duration default
DEFAULT_CONSULTATION_DURATION == 30

SecondsPerMinute == 60
SecondsPerHour == 60 * SecondsPerMinute
SecondsPerDay == 24 * SecondsPerHour

\* timedelta(days = d), timedelta(minutes = m) in seconds
Days(d) == d * SecondsPerDay
Minutes(m) == m * SecondsPerMinute

\* the instant of day `d` (0 = the epoch's Monday) at h:m:s UTC
At(d, h, m, s) == Days(d) + h * SecondsPerHour + Minutes(m) + s

\* datetime.weekday(): 0 = Monday
Weekday(t) == (t \div SecondsPerDay) % 7
\* datetime.hour
HourOf(t) == (t % SecondsPerDay) \div SecondsPerHour
\* seconds since midnight of the instant's day (datetime.time())
TimeOfDay(t) == t % SecondsPerDay

None == 0 - 1

(***************************************************************************)
(* AppointmentStatus (models.py)                                           *)
(***************************************************************************)
AppointmentStatus == {"SCHEDULED", "CONFIRMED", "COMPLETED", "CANCELLED", "NO_SHOW"}

\* _status_names(SCHEDULED, CONFIRMED) of find_available_slots
ActiveStatus == {"SCHEDULED", "CONFIRMED"}

(***************************************************************************)
(* Seeded reference data: the rows the lookups of book_appointment find    *)
(***************************************************************************)
PatientIds == {11}
DoctorIds == {1, 2}
HospitalIds == {1}

\* ids no row carries
UnknownPatientId == 11 + 1
UnknownDoctorId == 2 + 1
UnknownHospitalId == 1 + 1

(***************************************************************************)
(* _normalize_datetime_input.  The argument is a record                    *)
(*   kind   : "datetime", "str" (an ISO string fromisoformat accepts),     *)
(*            "badstr" (one it rejects), "none" (None), "date" (any other  *)
(*            type, e.g. the date the booking route passes)                *)
(*   wall   : the wall-clock fields, as seconds from the epoch             *)
(*   micro  : the microsecond field                                        *)
(*   aware  : tzinfo is not None;  offset : utcoffset() in seconds         *)
(* The result is [exc, message, dt]: exc when the function raises          *)
(* ValueError(message), else dt is the UTC instant.                        *)
(***************************************************************************)
Raise(msg) == [exc |-> TRUE, message |-> msg, dt |-> None]

replace_microsecond_0(value) == [value EXCEPT !.micro = 0]

\* (mutation of astimezone_UTC: an aware datetime is tagged UTC without
\* being converted)
astimezone_UTC_KeepWall(d) == [d EXCEPT !.aware = TRUE, !.offset = 0]

\* lines 55-58: dt.replace(tzinfo=UTC) for a naive datetime,
\* dt.astimezone(UTC) for an aware one
astimezone_UTC(d) ==
    IF d.aware THEN [d EXCEPT !.wall = d.wall - d.offset, !.offset = 0]
    ELSE [d EXCEPT !.aware = TRUE, !.offset = 0]

\* datetime.fromisoformat(value): the datetime a well-formed string denotes
fromisoformat(value) == [value EXCEPT !.kind = "datetime"]

\* lines 48-60: the datetime _normalize_datetime_input returns for a
\* datetime or a well-formed string
normalized_datetime(value) ==
    astimezone_UTC(replace_microsecond_0(
        IF value.kind = "str" THEN fromisoformat(value) ELSE value))

normalize_datetime_input(value) ==
    IF value.kind = "none" THEN Raise("appointment_datetime is required")
    ELSE IF value.kind = "badstr" THEN Raise("Invalid isoformat string")
    ELSE IF value.kind \notin {"datetime", "str"}
         THEN Raise("Unsupported datetime input type")
    ELSE LET dt == normalized_datetime(value)
         IN  [exc |-> FALSE, message |-> "", dt |-> dt.wall, micro |-> dt.micro]

(***************************************************************************)
(* ml_model.py: the model behind the predictor, NoShowPredictor.predict,   *)
(* load_model and build_features.                                          *)
(* A model is [truthy, has_predict_proba, has_predict, raises, proba_out,  *)
(* predict_out]: whether bool(model) holds, which methods it has, whether  *)
(* scoring raises, and what predict_proba(X)[0][1] and predict(X)[0] are.  *)
(***************************************************************************)
DummyModel ==
    [truthy |-> TRUE, has_predict_proba |-> TRUE, has_predict |-> TRUE,
     raises |-> FALSE, proba_out |-> DUMMY_PROBA, predict_out |-> DUMMY_PREDICT]

\* round(proba, 4): to the nearest multiple of 10, a tie to the even one
Round4(x) ==
    LET r == x % 10
        base == x - r
    IN  IF r < 5 THEN base
        ELSE IF r > 5 THEN base + 10
        ELSE IF (base \div 10) % 2 = 0 THEN base ELSE base + 10

\* NoShowPredictor.predict: [exc, probability, label]; the except clause
\* turns every failure of the scoring into probability 0.0
predict(predictor, features) ==
    LET model == predictor.model
        scored == model.truthy /\ (model.has_predict_proba \/ model.has_predict)
        proba == IF model.truthy /\ model.has_predict_proba THEN model.proba_out
                 ELSE IF model.truthy /\ model.has_predict THEN model.predict_out
                 ELSE PREDICT_FALLBACK_PROBA
    IN  IF scored /\ model.raises
        THEN [exc |-> FALSE, probability |-> PREDICT_FAILED_PROBABILITY, label |-> 0]
        ELSE [exc |-> FALSE, probability |-> Round4(proba),
              label |-> IF proba >= LABEL_THRESHOLD THEN 1 ELSE 0]

\* (mutation of time_of_day_bucket: the bounds 9, 12 and 17 belong to the
\* lower bucket)
time_of_day_bucket_Inclusive(hour) ==
    IF hour <= 9 THEN 0 ELSE IF hour <= 12 THEN 1
    ELSE IF hour <= 17 THEN 2 ELSE 3

\* build_features, lines 174-182: the if/elif chain on appointment_dt.hour
time_of_day_bucket(hour) ==
    IF hour < 9 THEN 0 ELSE IF hour < 12 THEN 1
    ELSE IF hour < 17 THEN 2 ELSE 3

\* build_features: the fixed feature vector of an appointment start, read at
\* clock `clk` (lead_time_days is kept in whole seconds of lead time)
build_features(doctor_duration, appointment_dt, clk) ==
    LET lead == IF appointment_dt - clk > 0 THEN appointment_dt - clk ELSE 0
        hour == HourOf(appointment_dt)
        tod == time_of_day_bucket(hour)
    IN  [exc |-> FALSE,
         past_no_shows |-> 0,
         lead_time_seconds |-> lead,
         time_of_day_bucket |-> tod,
         day_of_week |-> Weekday(appointment_dt),
         chronic_conditions_flag |-> 0,
         doctor_consultation_duration |-> doctor_duration,
         recent_no_shows |-> 0]

(***************************************************************************)
(* State                                                                   *)
(***************************************************************************)
\* a call that has built no features
NoFeatures == [exc |-> TRUE]

VARIABLES
    now,              \* datetime.now(UTC), in whole seconds
    appointments,     \* the committed rows of the appointments table
    next_id,          \* the table's autoincrement counter
    availability,     \* the rows of doctor_availability
    model_file,       \* what load_model finds at the model path
    column_arithmetic, \* what datetime column + func.cast(...) does in this build
    MODEL_SINGLETON,  \* ml_model._MODEL_SINGLETON: << >> is None
    constructed,      \* NoShowPredictor instances constructed so far
    pc,               \* where each caller thread is
    req,              \* the arguments of the call a thread is in (or was last in)
    appointment_dt,   \* book_appointment's local appointment_dt
    features,         \* book_appointment's local features
    probability,      \* book_appointment's local probability
    pending,          \* the row a thread's session has flushed but not committed
    result,           \* what the thread's last call returned
    call_no,          \* the number of the call a thread is in (or was last in)
    calls,            \* calls started so far
    key_at_start,     \* history: what held the call's key when the call began
    raced             \* history: the call ran while another booked the same key

vars == <<now, appointments, next_id, availability, model_file,
          column_arithmetic, MODEL_SINGLETON,
          constructed, pc, req, appointment_dt, features, probability, pending,
          result, call_no, calls, key_at_start, raced>>

\* what no call changes
config == <<availability, model_file, column_arithmetic>>

Procs == 1 .. NProcs

\* the clock at construction: Monday 08:59:59
Now0 == At(0, 8, 59, 59)

(***************************************************************************)
(* Results: the dictionaries the service returns                           *)
(***************************************************************************)
Failure(msg) == [success |-> FALSE, message |-> msg]
\* (mutation of BookSuccess: the call reports a failure after its commit)
BookSuccess_Failed(id, prob) == Failure("Internal server error")

BookSuccess(id, prob) ==
    [success |-> TRUE, appointment_id |-> id, no_show_probability |-> prob]
CancelSuccess == [success |-> TRUE, message |-> "Appointment cancelled"]

(***************************************************************************)
(* The appointments table.  UniqueConstraint("doctor_id",                  *)
(* "appointment_datetime"): an INSERT whose key a committed row holds      *)
(* fails with IntegrityError; one whose key an uncommitted row of another  *)
(* transaction holds waits for that transaction to end.                    *)
(***************************************************************************)
RowKey(row) == <<row.doctor_id, row.appointment_datetime>>

KeyCommitted(key) == \E row \in appointments : RowKey(row) = key

\* (mutation of IntegrityErrorOnInsert: the table has no such constraint)
NoUniqueConstraint(key) == FALSE

\* (mutation of IntegrityErrorOnInsert: the constraint covers only rows that
\* are SCHEDULED or CONFIRMED)
IntegrityErrorOnInsert_ActiveOnly(key) ==
    \E row \in appointments : RowKey(row) = key /\ row.status \in ActiveStatus

\* the INSERT of a row with this key violates uix_doctor_datetime
IntegrityErrorOnInsert(key) == \E row \in appointments : RowKey(row) = key

\* (mutation of KeyLockedByOther: the INSERT does not wait for the
\* uncommitted row of another transaction)
NoInsertLock(p, key) == FALSE

\* another transaction holds an uncommitted row with this key
KeyLockedByOther(p, key) ==
    \E q \in Procs \ {p} : pending[q] # << >> /\ RowKey(pending[q][1]) = key

\* an active row holds the key
KeyActive(key) ==
    \E row \in appointments : RowKey(row) = key /\ row.status \in ActiveStatus

\* "free": no committed row holds the key; else whether that row is active
KeyState(key) ==
    IF ~KeyCommitted(key) THEN "free"
    ELSE IF KeyActive(key) THEN "active" ELSE "inactive"

\* a thread is between the checks of book_appointment and its return
InFlight(q) == pc[q] \in {"predict", "load", "flush", "commit"}
InFlightKey(q) == <<req[q].doctor_id, appointment_dt[q]>>

\* Appointment(...) of book_appointment, with the id the flush assigns;
\* `by` is the number of the call that made the row (not a column)
NewAppointment(r, dt, prob, id, by) ==
    [id |-> id,
     patient_id |-> r.patient_id,
     doctor_id |-> r.doctor_id,
     hospital_id |-> r.hospital_id,
     appointment_datetime |-> dt,
     duration_minutes |-> r.duration_minutes,
     status |-> "SCHEDULED",
     no_show_probability |-> prob,
     updated_at |-> None,
     cancelled_at |-> None,
     by |-> by]

(***************************************************************************)
(* book_appointment                                                        *)
(***************************************************************************)
\* (mutation of InPast: a start equal to the clock passes)
InPast_Strict(dt, clk) == dt < clk

\* line 161: appointment_dt <= now
InPast(dt, clk) == dt <= clk

\* (mutation of BeyondHorizon: a start exactly 90 days ahead is refused)
BeyondHorizon_Inclusive(dt, clk) == dt >= clk + Days(MAX_BOOKING_DAYS_AHEAD)

\* line 164: appointment_dt > now + timedelta(days=MAX_BOOKING_DAYS_AHEAD)
BeyondHorizon(dt, clk) == dt > clk + Days(MAX_BOOKING_DAYS_AHEAD)

\* lines 157-178 and 225-227: the message of the failure the checks before
\* the prediction return, "" when they all pass
Validate(r, clk) ==
    LET n == normalize_datetime_input(r.appointment_datetime)
    IN  IF n.exc THEN n.message
        ELSE IF InPast(n.dt, clk) THEN "Cannot book in the past"
        ELSE IF BeyondHorizon(n.dt, clk) THEN "Booking too far in future"
        ELSE IF r.patient_id \notin PatientIds THEN "Patient not found"
        ELSE IF r.doctor_id \notin DoctorIds THEN "Doctor not found"
        ELSE IF r.hospital_id \notin HospitalIds THEN "Hospital not found"
        ELSE ""

\* load_model: the predictor it constructs when the singleton is None
LoadedModel ==
    IF model_file.state = "ok" THEN model_file.model ELSE DummyModel

\* lines 181-188: the probability the prediction block leaves
BookingProbability(fv, prediction) ==
    IF fv.exc \/ prediction.exc THEN BOOKING_DEFAULT_PROBABILITY
    ELSE prediction.probability

\* lines 157-178: normalise, read the clock, check the start, look the
\* patient, doctor and hospital up
BookValidate(p, r) ==
    /\ pc[p] \in {"idle", "done"}
    /\ calls < MaxCalls
    /\ calls' = calls + 1
    /\ call_no' = [call_no EXCEPT ![p] = calls + 1]
    /\ req' = [req EXCEPT ![p] = r]
    /\ LET msg == Validate(r, now)
       IN  IF msg # ""
           THEN /\ pc' = [pc EXCEPT ![p] = "done"]
                /\ result' = [result EXCEPT ![p] = Failure(msg)]
                /\ appointment_dt' = [appointment_dt EXCEPT ![p] = None]
           ELSE /\ pc' = [pc EXCEPT ![p] = "predict"]
                /\ result' = [result EXCEPT ![p] = Failure("")]
                /\ appointment_dt' = [appointment_dt EXCEPT ![p] =
                       normalize_datetime_input(r.appointment_datetime).dt]
    /\ features' = [features EXCEPT ![p] = NoFeatures]
    /\ probability' = [probability EXCEPT ![p] = None]
    /\ LET n == normalize_datetime_input(r.appointment_datetime)
           key == <<r.doctor_id, n.dt>>
           rivals == IF Validate(r, now) = ""
                     THEN {q \in Procs \ {p} : InFlight(q) /\ InFlightKey(q) = key}
                     ELSE {}
       IN  /\ key_at_start' = [key_at_start EXCEPT ![p] =
                   IF n.exc THEN "none" ELSE KeyState(key)]
           /\ raced' = [q \in Procs |->
                   IF q = p THEN rivals # {}
                   ELSE IF q \in rivals THEN TRUE ELSE raced[q]]
    /\ UNCHANGED <<now, appointments, next_id, config, MODEL_SINGLETON,
                   constructed, pending>>

\* lines 182-188: score the appointment with the predictor get_predictor
\* returned and keep the probability (the models of this specification do
\* not read the features, so the instant at which they are built is the
\* instant of the scoring)
ScoreWith(p, predictor) ==
    LET fv == build_features(DEFAULT_CONSULTATION_DURATION,
                             appointment_dt[p], now)
        prediction == predict(predictor, fv)
    IN  /\ features' = [features EXCEPT ![p] = fv]
        /\ probability' = [probability EXCEPT ![p] =
                               BookingProbability(fv, prediction)]

\* lines 180-201: build the features and call get_predictor.  load_model
\* tests `_MODEL_SINGLETON is not None` (ml_model.py line 93): when it holds
\* the call scores with the singleton, creates the Appointment and adds it
\* to the session; when it does not, load_model goes on to read the model
\* file, without any lock
BookPredict(p) ==
    /\ pc[p] = "predict"
    /\ IF MODEL_SINGLETON # << >>
       THEN /\ ScoreWith(p, MODEL_SINGLETON[1])
            /\ pc' = [pc EXCEPT ![p] = "flush"]
       ELSE /\ pc' = [pc EXCEPT ![p] = "load"]
            /\ UNCHANGED <<features, probability>>
    /\ UNCHANGED <<now, appointments, next_id, config, MODEL_SINGLETON,
                   constructed, req, appointment_dt, pending, result, call_no,
                   calls, key_at_start, raced>>

\* ml_model.py lines 100, 107, 113: _MODEL_SINGLETON = NoShowPredictor(...)
AssignSingleton(predictor) == <<predictor>>

\* ml_model.py lines 96-114: load_model, past its test of the singleton,
\* constructs a NoShowPredictor around the model it finds, assigns it to
\* _MODEL_SINGLETON and returns it; the call then scores with it
LoadModel(p) ==
    /\ pc[p] = "load"
    /\ LET predictor == [instance |-> constructed + 1, model |-> LoadedModel]
       IN  /\ MODEL_SINGLETON' = AssignSingleton(predictor)
           /\ constructed' = constructed + 1
           /\ ScoreWith(p, predictor)
    /\ pc' = [pc EXCEPT ![p] = "flush"]
    /\ UNCHANGED <<now, appointments, next_id, config, req, appointment_dt,
                   pending, result, call_no, calls, key_at_start, raced>>

\* (mutation of OnIntegrityError: the generic handler of lines 220-223
\* catches the IntegrityError)
OnIntegrityError_Generic == Failure("Internal server error")

\* lines 216-218: except IntegrityError
OnIntegrityError == Failure("Slot already booked")

\* line 204, session.flush(): the INSERT.  It waits while another
\* transaction holds the key uncommitted; IntegrityError (lines 216-218)
\* when the key is committed
BookFlush(p) ==
    /\ pc[p] = "flush"
    /\ LET key == <<req[p].doctor_id, appointment_dt[p]>>
       IN  /\ ~KeyLockedByOther(p, key)
           /\ IF IntegrityErrorOnInsert(key)
              THEN /\ pc' = [pc EXCEPT ![p] = "done"]
                   /\ result' = [result EXCEPT ![p] = OnIntegrityError]
                   /\ UNCHANGED <<pending, next_id>>
              ELSE /\ pc' = [pc EXCEPT ![p] = "commit"]
                   /\ pending' = [pending EXCEPT ![p] =
                          <<NewAppointment(req[p], appointment_dt[p], probability[p],
                                           next_id, call_no[p])>>]
                   /\ next_id' = next_id + 1
                   /\ UNCHANGED result
    /\ UNCHANGED <<now, appointments, config, MODEL_SINGLETON, constructed, req,
                   appointment_dt, features, probability, call_no, calls, key_at_start,
                   raced>>

\* lines 206-214: session.commit() and the success result
BookCommit(p) ==
    /\ pc[p] = "commit"
    /\ appointments' = appointments \cup {pending[p][1]}
    /\ pending' = [pending EXCEPT ![p] = << >>]
    /\ result' = [result EXCEPT ![p] =
                      BookSuccess(pending[p][1].id, probability[p])]
    /\ pc' = [pc EXCEPT ![p] = "done"]
    /\ UNCHANGED <<now, next_id, config, MODEL_SINGLETON, constructed, req,
                   appointment_dt, features, probability, call_no, calls, key_at_start,
                   raced>>

(***************************************************************************)
(* Storage failures in book_appointment: the database may fail any         *)
(* statement (connection lost, lock timeout).  A failure of flush or       *)
(* commit is caught by the handler of lines 220-223; a failure of          *)
(* get_session or of the queries of lines 170-172 leaves the `with` block  *)
(* through get_session's rollback and is caught by the handler of lines    *)
(* 225-227, which returns str(e).                                          *)
(***************************************************************************)
\* (mutation of OnStorageError: the exception is raised to the caller
\* instead of being turned into a result)
OnStorageError_Escapes == [raised |-> TRUE]

\* lines 220-223: except Exception around flush and commit
OnStorageError == Failure("Internal server error")

\* lines 225-227: except Exception as e around the whole call
OnException(message) == Failure(message)

\* str(e) of a failure of the database
StorageErrorMessage == "storage error"

\* lines 168-172: the call passes the checks of the start, then get_session
\* or one of the three queries raises
BookQueryFailure(p, r) ==
    /\ pc[p] \in {"idle", "done"}
    /\ calls < MaxCalls
    /\ LET n == normalize_datetime_input(r.appointment_datetime)
       IN  /\ ~n.exc
           /\ ~InPast(n.dt, now)
           /\ ~BeyondHorizon(n.dt, now)
    /\ calls' = calls + 1
    /\ call_no' = [call_no EXCEPT ![p] = calls + 1]
    /\ req' = [req EXCEPT ![p] = r]
    /\ pc' = [pc EXCEPT ![p] = "done"]
    /\ result' = [result EXCEPT ![p] = OnException(StorageErrorMessage)]
    /\ appointment_dt' = [appointment_dt EXCEPT ![p] = None]
    /\ features' = [features EXCEPT ![p] = NoFeatures]
    /\ probability' = [probability EXCEPT ![p] = None]
    /\ key_at_start' = [key_at_start EXCEPT ![p] = "none"]
    /\ raced' = [raced EXCEPT ![p] = FALSE]
    /\ UNCHANGED <<now, appointments, next_id, config, MODEL_SINGLETON,
                   constructed, pending>>

\* lines 203-227: session.flush() or session.commit() raises something
\* other than IntegrityError; the handler of lines 220-223 rolls back and
\* returns, unless its rollback raises as well, which the handler of
\* lines 225-227 catches
BookStorageFailure(p) ==
    /\ pc[p] \in {"flush", "commit"}
    /\ pending' = [pending EXCEPT ![p] = << >>]
    /\ \E outcome \in {OnStorageError, OnException(StorageErrorMessage)} :
           result' = [result EXCEPT ![p] = outcome]
    /\ pc' = [pc EXCEPT ![p] = "done"]
    /\ UNCHANGED <<now, appointments, next_id, config, MODEL_SINGLETON,
                   constructed, req, appointment_dt, features, probability,
                   call_no, calls, key_at_start, raced>>

(***************************************************************************)
(* cancel_appointment                                                      *)
(***************************************************************************)
\* (mutation of CancelRefused: a cancelled appointment is not refused)
CancelRefused_OnlyCompleted == {"COMPLETED"}

\* lines 243-246: the statuses cancel_appointment refuses
CancelRefused == {"CANCELLED", "COMPLETED"}

\* what cancel_appointment finds under an id: "missing" or the row's status
CancelCase(id) ==
    IF ~\E row \in appointments : row.id = id THEN "missing"
    ELSE (CHOOSE row \in appointments : row.id = id).status

\* lines 240-247: the failure cancel_appointment returns in each case it
\* refuses, Failure("") in the cases it goes on to cancel
CancelFailure(case) ==
    IF case = "missing" THEN Failure("Appointment not found")
    ELSE IF case \in CancelRefused THEN Failure("Cannot cancel this appointment")
    ELSE Failure("")

\* lines 238-247: load the appointment, check that it can be cancelled
CancelRead(p, id) ==
    /\ pc[p] \in {"idle", "done"}
    /\ calls < MaxCalls
    /\ calls' = calls + 1
    /\ call_no' = [call_no EXCEPT ![p] = calls + 1]
    /\ req' = [req EXCEPT ![p] = [op |-> "cancel", appointment_id |-> id]]
    /\ result' = [result EXCEPT ![p] = CancelFailure(CancelCase(id))]
    /\ pc' = [pc EXCEPT ![p] =
                  IF CancelFailure(CancelCase(id)) # Failure("")
                  THEN "done" ELSE "cancel_commit"]
    /\ appointment_dt' = [appointment_dt EXCEPT ![p] = None]
    /\ features' = [features EXCEPT ![p] = NoFeatures]
    /\ probability' = [probability EXCEPT ![p] = None]
    /\ key_at_start' = [key_at_start EXCEPT ![p] = "none"]
    /\ raced' = [raced EXCEPT ![p] = FALSE]
    /\ UNCHANGED <<now, appointments, next_id, config, MODEL_SINGLETON,
                   constructed, pending>>

\* (mutation of CancelWrite: the write flips a CANCELLED appointment back to
\* SCHEDULED)
CancelWrite_Toggle(row) ==
    [row EXCEPT !.status = IF @ = "CANCELLED" THEN "SCHEDULED" ELSE "CANCELLED",
                !.updated_at = now]

\* lines 249-250: appt.status = CANCELLED, appt.updated_at = now
CancelWrite(row) == [row EXCEPT !.status = "CANCELLED", !.updated_at = now]

\* lines 249-254: status = CANCELLED, updated_at = now, commit
CancelCommit(p) ==
    /\ pc[p] = "cancel_commit"
    /\ appointments' =
           {IF row.id = req[p].appointment_id THEN CancelWrite(row) ELSE row :
               row \in appointments}
    /\ result' = [result EXCEPT ![p] = CancelSuccess]
    /\ pc' = [pc EXCEPT ![p] = "done"]
    /\ UNCHANGED <<now, next_id, config, MODEL_SINGLETON, constructed, req,
                   appointment_dt, features, probability, pending, call_no, calls,
                   key_at_start, raced>>

(***************************************************************************)
(* routes/patient_routes.py, PUT /cancel/<appointment_id>: the route loads *)
(* the appointment, answers 404 when there is none, and otherwise assigns  *)
(* status = "CANCELLED" and commits, whatever the status was.  The Enum    *)
(* column takes the string as the name of the member CANCELLED.            *)
(***************************************************************************)
RouteCancel(p, id) ==
    /\ pc[p] \in {"idle", "done"}
    /\ calls < MaxCalls
    /\ calls' = calls + 1
    /\ call_no' = [call_no EXCEPT ![p] = calls + 1]
    /\ req' = [req EXCEPT ![p] = [op |-> "route_cancel", appointment_id |-> id]]
    /\ IF CancelCase(id) = "missing"
       THEN /\ result' = [result EXCEPT ![p] = Failure("Appointment not found")]
            /\ UNCHANGED appointments
       ELSE /\ appointments' =
                   {IF row.id = id
                    THEN [row EXCEPT !.status = "CANCELLED", !.updated_at = now]
                    ELSE row : row \in appointments}
            /\ result' = [result EXCEPT ![p] = CancelSuccess]
    /\ pc' = [pc EXCEPT ![p] = "done"]
    /\ appointment_dt' = [appointment_dt EXCEPT ![p] = None]
    /\ features' = [features EXCEPT ![p] = NoFeatures]
    /\ probability' = [probability EXCEPT ![p] = None]
    /\ key_at_start' = [key_at_start EXCEPT ![p] = "none"]
    /\ raced' = [raced EXCEPT ![p] = FALSE]
    /\ UNCHANGED <<now, next_id, config, MODEL_SINGLETON, constructed, pending>>

(***************************************************************************)
(* tests/test_scheduling_unit.py, cancel_appointment: the second           *)
(* implementation of the service refuses only an appointment that is       *)
(* already CANCELLED, stamps cancelled_at and returns {"success": True}.   *)
(***************************************************************************)
UnitCancelSuccess == [success |-> TRUE]

UnitCancel(p, id) ==
    /\ pc[p] \in {"idle", "done"}
    /\ calls < MaxCalls
    /\ calls' = calls + 1
    /\ call_no' = [call_no EXCEPT ![p] = calls + 1]
    /\ req' = [req EXCEPT ![p] = [op |-> "unit_cancel", appointment_id |-> id]]
    /\ IF CancelCase(id) = "missing"
       THEN /\ result' = [result EXCEPT ![p] = Failure("Appointment not found")]
            /\ UNCHANGED appointments
       ELSE IF CancelCase(id) = "CANCELLED"
       THEN /\ result' = [result EXCEPT ![p] =
                              Failure("Appointment already cancelled")]
            /\ UNCHANGED appointments
       ELSE /\ appointments' =
                   {IF row.id = id
                    THEN [row EXCEPT !.status = "CANCELLED", !.updated_at = now,
                                     !.cancelled_at = now]
                    ELSE row : row \in appointments}
            /\ result' = [result EXCEPT ![p] = UnitCancelSuccess]
    /\ pc' = [pc EXCEPT ![p] = "done"]
    /\ appointment_dt' = [appointment_dt EXCEPT ![p] = None]
    /\ features' = [features EXCEPT ![p] = NoFeatures]
    /\ probability' = [probability EXCEPT ![p] = None]
    /\ key_at_start' = [key_at_start EXCEPT ![p] = "none"]
    /\ raced' = [raced EXCEPT ![p] = FALSE]
    /\ UNCHANGED <<now, next_id, config, MODEL_SINGLETON, constructed, pending>>

(***************************************************************************)
(* find_available_slots(doctor_id, date, consultation_minutes).  A date is *)
(* the number of its day, 0 being the epoch's Monday.                      *)
(***************************************************************************)
\* (mutation of EnabledRows: the query ignores is_available)
EnabledRows_AnyRow(doctor_id, weekday) ==
    {a \in availability : a.doctor_id = doctor_id /\ a.day_of_week = weekday}

\* lines 82-88: the doctor's enabled availability rows of the weekday
EnabledRows(doctor_id, weekday) ==
    {a \in availability :
        /\ a.doctor_id = doctor_id
        /\ a.day_of_week = weekday
        /\ a.is_available}

\* (mutation of ExistingActive: the query does not filter on the status)
ExistingAnyStatus(table, doctor_id, start_of_day) ==
    {row \in table :
        /\ row.doctor_id = doctor_id
        /\ row.appointment_datetime >= start_of_day
        /\ row.appointment_datetime < start_of_day + Days(1)}

\* (mutation of ExistingActive: the query does not filter on the doctor)
ExistingActive_AnyDoctor(table, doctor_id, start_of_day) ==
    {row \in table :
        /\ row.appointment_datetime >= start_of_day
        /\ row.appointment_datetime < start_of_day + Days(1)
        /\ row.status \in ActiveStatus}

\* lines 93-108: the doctor's active appointments that start on the date
ExistingActive(table, doctor_id, start_of_day) ==
    {row \in table :
        /\ row.doctor_id = doctor_id
        /\ row.appointment_datetime >= start_of_day
        /\ row.appointment_datetime < start_of_day + Days(1)
        /\ row.status \in ActiveStatus}

\* lines 110-117: the busy intervals <<start, end>>
Busy(existing) ==
    {<<row.appointment_datetime,
       row.appointment_datetime + Minutes(row.duration_minutes)>> :
        row \in existing}

\* (mutation of Conflict: only a slot strictly inside a busy interval conflicts)
Conflict_StrictlyInside(current, slot_end, busy) ==
    \E b \in busy : current > b[1] /\ slot_end < b[2]

\* (mutation of Conflict: the intervals are compared as closed ones)
Conflict_Closed(current, slot_end, busy) ==
    \E b \in busy : current <= b[2] /\ slot_end >= b[1]

\* lines 131-134: current < busy_end and slot_end > busy_start for some interval
Conflict(current, slot_end, busy) ==
    \E b \in busy : current < b[2] /\ slot_end > b[1]

\* (mutation of WindowSlots: the loop runs while current + c < end_dt)
WindowSlots_Exclusive(a, start_of_day, consultation_minutes, busy) ==
    LET start_dt == start_of_day + a.start_time
        end_dt == start_of_day + a.end_time
        increment == Minutes(SLOT_INCREMENT_MINUTES)
        steps == (end_dt - Minutes(consultation_minutes) - start_dt) \div increment
    IN  {current \in {start_dt + k * increment : k \in 0 .. steps} :
            /\ current + Minutes(consultation_minutes) < end_dt
            /\ ~Conflict(current, current + Minutes(consultation_minutes), busy)}

\* lines 122-139: the slots the loop adds for one availability row; the
\* loop visits start_dt, start_dt + 15min, ... while current + c <= end_dt
\* (with c <= 0 it runs up to end_dt - c, at or past the window's end)
WindowSlots(a, start_of_day, consultation_minutes, busy) ==
    LET start_dt == start_of_day + a.start_time
        end_dt == start_of_day + a.end_time
        increment == Minutes(SLOT_INCREMENT_MINUTES)
        steps == (end_dt - Minutes(consultation_minutes) - start_dt) \div increment
    IN  {current \in {start_dt + k * increment : k \in 0 .. steps} :
            /\ current + Minutes(consultation_minutes) <= end_dt
            /\ ~Conflict(current, current + Minutes(consultation_minutes), busy)}

\* (mutation of Advance: the loop does not move the candidate on)
Advance_Stay(current) == current

\* lines 120, 139: current += increment
Advance(current) == current + Minutes(SLOT_INCREMENT_MINUTES)

\* lines 126-139: the while loop of one availability row, run for at most
\* `fuel` iterations from `current`: the candidates it visits in order, and
\* whether its test `current + consultation_minutes <= end_dt` has failed,
\* which ends the loop, within those iterations
RECURSIVE Walk(_, _, _, _)
Walk(current, end_dt, consultation_minutes, fuel) ==
    IF ~(current + Minutes(consultation_minutes) <= end_dt)
    THEN [visited |-> << >>, ended |-> TRUE]
    ELSE IF fuel = 0
         THEN [visited |-> << >>, ended |-> FALSE]
         ELSE LET rest == Walk(Advance(current), end_dt, consultation_minutes,
                               fuel - 1)
              IN  [visited |-> <<current>> \o rest.visited,
                   ended |-> rest.ended]

\* lines 77-139: the set `slots` the function builds over the given table
AvailableSlots(table, doctor_id, date, consultation_minutes) ==
    LET start_of_day == Days(date)
        availability_rows == EnabledRows(doctor_id, Weekday(start_of_day))
        busy == Busy(ExistingActive(table, doctor_id, start_of_day))
    IN  UNION {WindowSlots(a, start_of_day, consultation_minutes, busy) :
                  a \in availability_rows}

\* (mutation of sorted: the slots are listed latest first)
RECURSIVE sorted_Descending(_)
sorted_Descending(slots) ==
    IF slots = {} THEN << >>
    ELSE LET last == CHOOSE x \in slots : \A y \in slots : x >= y
         IN  <<last>> \o sorted_Descending(slots \ {last})

\* sorted(slots)
RECURSIVE sorted(_)
sorted(slots) ==
    IF slots = {} THEN << >>
    ELSE LET first == CHOOSE x \in slots : \A y \in slots : x <= y
         IN  <<first>> \o sorted(slots \ {first})

find_available_slots(doctor_id, date, consultation_minutes) ==
    sorted(AvailableSlots(appointments, doctor_id, date, consultation_minutes))

FindRequest(doctor, date, minutes) ==
    [op |-> "find", doctor_id |-> doctor, date |-> date,
     consultation_minutes |-> minutes]

SlotsResult(slots) == [success |-> TRUE, slots |-> slots]

\* a caller runs find_available_slots: one read-only transaction
FindSlots(p, doctor, date, minutes) ==
    /\ pc[p] \in {"idle", "done"}
    /\ req' = [req EXCEPT ![p] = FindRequest(doctor, date, minutes)]
    /\ result' = [result EXCEPT ![p] =
                      SlotsResult(find_available_slots(doctor, date, minutes))]
    /\ pc' = [pc EXCEPT ![p] = "done"]
    /\ appointment_dt' = [appointment_dt EXCEPT ![p] = None]
    /\ features' = [features EXCEPT ![p] = NoFeatures]
    /\ probability' = [probability EXCEPT ![p] = None]
    /\ key_at_start' = [key_at_start EXCEPT ![p] = "none"]
    /\ raced' = [raced EXCEPT ![p] = FALSE]
    /\ UNCHANGED <<now, appointments, next_id, config, MODEL_SINGLETON,
                   constructed, pending, call_no, calls>>

(***************************************************************************)
(* tests/test_scheduling_unit.py: the second implementation of the         *)
(* scheduling service (find_available_slots, book_appointment).  Its       *)
(* overlap queries filter on status == CONFIRMED and compute the end of an *)
(* appointment as                                                          *)
(*   Appointment.appointment_datetime                                      *)
(*       + func.cast(Appointment.duration_minutes, type_=int)              *)
(* an expression whose type argument is the Python class int.  What it     *)
(* does depends on the SQLAlchemy version and the database: building or    *)
(* executing the query raises ("raises"), or the sum is the end of the     *)
(* appointment, as the comment next to it says ("minutes").                *)
(***************************************************************************)
ColumnArithmetic == {"raises", "minutes"}

\* _normalize_datetime_input of the second implementation: no
\* replace(microsecond=0), and an error message of its own
unit_normalize_datetime_input(value) ==
    IF value.kind = "badstr" THEN Raise("Invalid isoformat string")
    ELSE IF value.kind \notin {"datetime", "str"}
         THEN Raise("Unsupported datetime input")
    ELSE LET dt == astimezone_UTC(value)
         IN  [exc |-> FALSE, message |-> "", dt |-> dt.wall, micro |-> dt.micro]

\* lines 177-187 and 303-313: the rows the overlap query counts for the
\* interval [cur, slot_end), when the query runs
UnitOverlapping(table, doctor_id, cur, slot_end) ==
    {row \in table :
        /\ row.doctor_id = doctor_id
        /\ row.status = "CONFIRMED"
        /\ row.appointment_datetime < slot_end
        /\ row.appointment_datetime + Minutes(row.duration_minutes) > cur}

\* lines 169-193: the starts the loop of one availability row visits, cur =
\* start_dt, start_dt + delta, ... while cur + 1s <= end_dt, kept when the
\* overlap query counts nothing (consultation_minutes > 0)
UnitWindowSlots(table, a, doctor_id, start_of_day, consultation_minutes) ==
    LET start_dt == start_of_day + a.start_time
        end_dt == start_of_day + a.end_time
        delta == Minutes(consultation_minutes)
        steps == (end_dt - 1 - start_dt) \div delta
    IN  {cur \in {start_dt + k * delta : k \in 0 .. steps} :
            UnitOverlapping(table, doctor_id, cur, cur + delta) = {}}

\* the loop body runs at least once, so that the overlap query is built
UnitFindQueries(doctor_id, date) ==
    \E a \in EnabledRows(doctor_id, Weekday(Days(date))) :
        Days(date) + a.start_time + 1 <= Days(date) + a.end_time

\* lines 150-196: find_available_slots of the second implementation over
\* the given table, when its queries run
unit_find_available_slots(table, doctor_id, date, consultation_minutes) ==
    sorted(UNION {UnitWindowSlots(table, a, doctor_id, Days(date),
                                  consultation_minutes) :
                     a \in EnabledRows(doctor_id, Weekday(Days(date)))})

UnitFindRequest(doctor, date, minutes) ==
    [op |-> "unit_find", doctor_id |-> doctor, date |-> date,
     consultation_minutes |-> minutes]

\* the exception of the overlap query leaves find_available_slots
UnitFindRaised == [success |-> FALSE, message |-> "exception"]

\* a caller runs find_available_slots of the second implementation
UnitFindSlots(p, doctor, date, minutes) ==
    /\ pc[p] \in {"idle", "done"}
    /\ minutes > 0
    /\ calls < MaxCalls
    /\ calls' = calls + 1
    /\ call_no' = [call_no EXCEPT ![p] = calls + 1]
    /\ req' = [req EXCEPT ![p] = UnitFindRequest(doctor, date, minutes)]
    /\ result' = [result EXCEPT ![p] =
           IF column_arithmetic = "raises" /\ UnitFindQueries(doctor, date)
           THEN UnitFindRaised
           ELSE SlotsResult(unit_find_available_slots(appointments, doctor,
                                                      date, minutes))]
    /\ pc' = [pc EXCEPT ![p] = "done"]
    /\ appointment_dt' = [appointment_dt EXCEPT ![p] = None]
    /\ features' = [features EXCEPT ![p] = NoFeatures]
    /\ probability' = [probability EXCEPT ![p] = None]
    /\ key_at_start' = [key_at_start EXCEPT ![p] = "none"]
    /\ raced' = [raced EXCEPT ![p] = FALSE]
    /\ UNCHANGED <<now, appointments, next_id, config, MODEL_SINGLETON,
                   constructed, pending>>

UnitBookRequest(patient, doctor, hospital, dt, minutes) ==
    [op |-> "unit_book", patient_id |-> patient, doctor_id |-> doctor,
     hospital_id |-> hospital, appointment_datetime |-> dt,
     duration_minutes |-> minutes]

\* lines 320-328: Appointment(..., status=AppointmentStatus.CONFIRMED);
\* no_show_probability is left to the column's default 0.0
UnitNewAppointment(r, dt, id, by) ==
    [id |-> id,
     patient_id |-> r.patient_id,
     doctor_id |-> r.doctor_id,
     hospital_id |-> r.hospital_id,
     appointment_datetime |-> dt,
     duration_minutes |-> r.duration_minutes,
     status |-> "CONFIRMED",
     no_show_probability |-> 0,
     updated_at |-> None,
     cancelled_at |-> None,
     by |-> by]

UnitBookSuccess(id) == [success |-> TRUE, data |-> [appointment_id |-> id]]

\* lines 276-299: the checks before the overlap query, `avail` being the
\* row .first() returned; "" when the call goes on to the overlap query
UnitValidate(r, avail) ==
    LET n == unit_normalize_datetime_input(r.appointment_datetime)
        day == Days(n.dt \div SecondsPerDay)
    IN  IF n.exc THEN "Error booking appointment: " \o n.message
        ELSE IF ~(/\ r.patient_id \in PatientIds
                  /\ r.doctor_id \in DoctorIds
                  /\ r.hospital_id \in HospitalIds)
             THEN "Invalid patient/doctor/hospital id"
        ELSE IF avail = << >> THEN "Doctor not available on requested date"
        ELSE IF ~(/\ day + avail[1].start_time <= n.dt
                  /\ n.dt < day + avail[1].end_time)
             THEN "Requested slot not within availability"
        ELSE ""

\* the rows .first() may return (the query has no ORDER BY): << >> for None
UnitFirstAvailability(r) ==
    LET n == unit_normalize_datetime_input(r.appointment_datetime)
        rows == IF n.exc THEN {} ELSE EnabledRows(r.doctor_id, Weekday(n.dt))
    IN  IF rows = {} THEN {<< >>} ELSE {<<a>> : a \in rows}

\* lines 301-317: what the overlap query makes of a request that passed the
\* checks: "" when the call goes on to create the appointment
UnitOverlapCheck(r, dt) ==
    IF column_arithmetic = "raises"
    THEN "Error booking appointment: exception"
    ELSE IF UnitOverlapping(appointments, r.doctor_id, dt,
                            dt + Minutes(r.duration_minutes)) # {}
         THEN "Slot already booked"
    ELSE ""

\* lines 258-345: book_appointment of the second implementation, one
\* transaction: the checks, the overlap query, the insert and the commit
UnitBook(p, r) ==
  \E avail \in UnitFirstAvailability(r) :
    /\ pc[p] \in {"idle", "done"}
    /\ calls < MaxCalls
    /\ calls' = calls + 1
    /\ call_no' = [call_no EXCEPT ![p] = calls + 1]
    /\ req' = [req EXCEPT ![p] = r]
    /\ LET n == unit_normalize_datetime_input(r.appointment_datetime)
           msg == UnitValidate(r, avail)
       IN  IF msg # ""
           THEN /\ result' = [result EXCEPT ![p] = Failure(msg)]
                /\ UNCHANGED <<appointments, next_id>>
           ELSE IF UnitOverlapCheck(r, n.dt) # ""
           THEN /\ result' = [result EXCEPT ![p] =
                                  Failure(UnitOverlapCheck(r, n.dt))]
                /\ UNCHANGED <<appointments, next_id>>
           ELSE IF IntegrityErrorOnInsert(<<r.doctor_id, n.dt>>)
           THEN /\ result' = [result EXCEPT ![p] = Failure(
                       "Database integrity error (possible double-book)")]
                /\ UNCHANGED <<appointments, next_id>>
           ELSE /\ appointments' = appointments \cup
                       {UnitNewAppointment(r, n.dt, next_id, calls + 1)}
                /\ next_id' = next_id + 1
                /\ result' = [result EXCEPT ![p] = UnitBookSuccess(next_id)]
    /\ pc' = [pc EXCEPT ![p] = "done"]
    /\ appointment_dt' = [appointment_dt EXCEPT ![p] = None]
    /\ features' = [features EXCEPT ![p] = NoFeatures]
    /\ probability' = [probability EXCEPT ![p] = None]
    /\ key_at_start' = [key_at_start EXCEPT ![p] = "none"]
    /\ raced' = [raced EXCEPT ![p] = FALSE]
    /\ UNCHANGED <<now, config, MODEL_SINGLETON, constructed, pending>>

(***************************************************************************)
(* Confirmation, completion and no-show are recorded on an active          *)
(* appointment by the system's environment, between the calls of the       *)
(* service; the row's onupdate stamps updated_at.                          *)
(***************************************************************************)
ExternalStatuses == {"CONFIRMED", "COMPLETED", "NO_SHOW"}

ExternalTransition(id, status) ==
    /\ \A p \in Procs : pc[p] \in {"idle", "done"}
    /\ \E row \in appointments :
           /\ row.id = id
           /\ row.status \in ActiveStatus
           /\ row.status # status
    /\ appointments' =
           {IF row.id = id
            THEN [row EXCEPT !.status = status, !.updated_at = now]
            ELSE row : row \in appointments}
    /\ UNCHANGED <<now, next_id, config, MODEL_SINGLETON, constructed, pc, req,
                   appointment_dt, features, probability, pending, result, call_no, calls,
                   key_at_start, raced>>

\* the clock advances by a second
Tick ==
    /\ now < Now0 + MaxTicks
    /\ now' = now + 1
    /\ UNCHANGED <<appointments, next_id, config, MODEL_SINGLETON, constructed,
                   pc, req, appointment_dt, features, probability, pending, result,
                   call_no, calls, key_at_start, raced>>

(***************************************************************************)
(* Inputs                                                                  *)
(***************************************************************************)
\* a naive datetime, an ISO string without offset, a datetime with
\* microseconds, an aware datetime at UTC+1 denoting the instant t
NaiveDatetime(t) ==
    [kind |-> "datetime", wall |-> t, micro |-> 0, aware |-> FALSE, offset |-> 0]
IsoString(t) ==
    [kind |-> "str", wall |-> t, micro |-> 0, aware |-> FALSE, offset |-> 0]
WithMicroseconds(t) ==
    [kind |-> "datetime", wall |-> t, micro |-> 500000, aware |-> FALSE, offset |-> 0]
AwarePlusOne(t) ==
    [kind |-> "datetime", wall |-> t + SecondsPerHour, micro |-> 0, aware |-> TRUE,
     offset |-> SecondsPerHour]
NoDatetime ==
    [kind |-> "none", wall |-> 0, micro |-> 0, aware |-> FALSE, offset |-> 0]
DateOnly ==
    [kind |-> "date", wall |-> 0, micro |-> 0, aware |-> FALSE, offset |-> 0]
BadString ==
    [kind |-> "badstr", wall |-> 0, micro |-> 0, aware |-> FALSE, offset |-> 0]

\* Monday 09:00 (one second after Now0), 09:15, 20:00, and the instant one
\* second beyond the horizon of Now0
T0900 == At(0, 9, 0, 0)
T0915 == At(0, 9, 15, 0)
T2000 == At(0, 20, 0, 0)
THorizon == Now0 + Days(MAX_BOOKING_DAYS_AHEAD) + 1
\* Monday 23:45: 30 minutes from it run into Tuesday
T2345 == At(0, 23, 45, 0)

BookRequest(patient, doctor, hospital, dt, minutes) ==
    [op |-> "book", patient_id |-> patient, doctor_id |-> doctor,
     hospital_id |-> hospital, appointment_datetime |-> dt,
     duration_minutes |-> minutes]

\* requests that pass every check when made at Now0
ValidRequests ==
    {BookRequest(11, 1, 1, IsoString(T0900), 30),
     BookRequest(11, 1, 1, NaiveDatetime(T0900), 15),
     BookRequest(11, 1, 1, NaiveDatetime(T0915), 30),
     BookRequest(11, 1, 1, NaiveDatetime(T2000), 30),
     BookRequest(11, 2, 1, NaiveDatetime(T0900), 30),
     BookRequest(11, 1, 1, NaiveDatetime(THorizon - 1), 30)}

\* requests that some check refuses at Now0
InvalidRequests ==
    {BookRequest(11, 1, 1, NaiveDatetime(Now0), 30),
     BookRequest(UnknownPatientId, 1, 1, NaiveDatetime(Now0), 30),
     BookRequest(11, 1, 1, NaiveDatetime(THorizon), 30),
     BookRequest(UnknownPatientId, 1, 1, NaiveDatetime(THorizon), 30),
     BookRequest(UnknownPatientId, 1, 1, NaiveDatetime(T0915), 30),
     BookRequest(11, UnknownDoctorId, 1, NaiveDatetime(T0915), 30),
     BookRequest(11, 1, UnknownHospitalId, NaiveDatetime(T0915), 30),
     BookRequest(UnknownPatientId, UnknownDoctorId, UnknownHospitalId,
                 NaiveDatetime(T0915), 30),
     BookRequest(11, 1, 1, NoDatetime, 30),
     BookRequest(11, 1, 1, DateOnly, 30),
     BookRequest(11, 1, 1, BadString, 30)}

Requests == ValidRequests \cup InvalidRequests

\* appointment ids a cancellation may name
CancelIds == 1 .. MaxCalls

\* doctor_availability: doctor 1 on Monday 09:00-10:00, a disabled row for
\* 13:00-14:00 and only a disabled row on Tuesday; doctor 2 on Monday
\* 09:00-10:00 and on Tuesday 00:00-01:00
AvailabilityRow(doctor, day, from, to, enabled) ==
    [doctor_id |-> doctor, day_of_week |-> day, start_time |-> from,
     end_time |-> to, is_available |-> enabled]

SeedAvailability ==
    {AvailabilityRow(1, 0, 9 * SecondsPerHour, 10 * SecondsPerHour, TRUE),
     AvailabilityRow(1, 0, 13 * SecondsPerHour, 14 * SecondsPerHour, FALSE),
     AvailabilityRow(1, 1, 9 * SecondsPerHour, 10 * SecondsPerHour, FALSE),
     AvailabilityRow(2, 0, 9 * SecondsPerHour, 10 * SecondsPerHour, TRUE),
     AvailabilityRow(2, 1, 0, SecondsPerHour, TRUE)}

\* what load_model may find: no file, a file pickle cannot load, or a model
ModelFile(state, model) == [state |-> state, model |-> model]

RaisingModel == [DummyModel EXCEPT !.raises = TRUE]
\* predict_proba returns 0.33335
FittedModel == [DummyModel EXCEPT !.proba_out = 33335]
\* a regressor: no predict_proba, predict returns 1.5
PredictOnlyModel ==
    [DummyModel EXCEPT !.has_predict_proba = FALSE, !.predict_out = 150000]
\* predict_proba returns -0.2
NegativeModel == [DummyModel EXCEPT !.proba_out = 0 - 20000]
\* an object with neither method
NoMethodModel ==
    [DummyModel EXCEPT !.has_predict_proba = FALSE, !.has_predict = FALSE]

ModelFiles ==
    {ModelFile("missing", DummyModel), ModelFile("corrupt", DummyModel),
     ModelFile("ok", FittedModel), ModelFile("ok", RaisingModel),
     ModelFile("ok", PredictOnlyModel), ModelFile("ok", NegativeModel),
     ModelFile("ok", NoMethodModel)}

(***************************************************************************)
(* Specifications                                                          *)
(***************************************************************************)
InitWith(files) ==
    /\ now = Now0
    /\ appointments = {}
    /\ next_id = 1
    /\ availability = SeedAvailability
    /\ model_file \in files
    /\ column_arithmetic = "raises"
    /\ MODEL_SINGLETON = << >>
    /\ constructed = 0
    /\ pc = [p \in Procs |-> "idle"]
    /\ req = [p \in Procs |-> [op |-> "none"]]
    /\ appointment_dt = [p \in Procs |-> None]
    /\ features = [p \in Procs |-> NoFeatures]
    /\ probability = [p \in Procs |-> None]
    /\ pending = [p \in Procs |-> << >>]
    /\ result = [p \in Procs |-> Failure("")]
    /\ call_no = [p \in Procs |-> 0]
    /\ calls = 0
    /\ key_at_start = [p \in Procs |-> "none"]
    /\ raced = [p \in Procs |-> FALSE]

\* the threads of the sequential specifications
OneThread == {1}

\* the requests of the concurrent specification: 09:00 for 30 and for 15
\* minutes, 09:15, and an unknown patient at 09:00
RaceRequests ==
    {BookRequest(11, 1, 1, IsoString(T0900), 30),
     BookRequest(11, 1, 1, NaiveDatetime(T0900), 15),
     BookRequest(11, 1, 1, NaiveDatetime(T0915), 30),
     BookRequest(UnknownPatientId, 1, 1, NaiveDatetime(T0900), 30)}

\* the requests of the predictor specification
PredictorRequests ==
    {BookRequest(11, 1, 1, IsoString(T0900), 30),
     BookRequest(11, 1, 1, NaiveDatetime(T0915), 30),
     BookRequest(11, 2, 1, NaiveDatetime(T0900), 30)}

NoModelFile == {ModelFile("missing", DummyModel)}

\* Concurrent callers booking and cancelling, the clock standing still
Init == InitWith(NoModelFile)

Next ==
    \/ \E p \in Procs, r \in RaceRequests : BookValidate(p, r)
    \/ \E p \in Procs : BookPredict(p)
    \/ \E p \in Procs : LoadModel(p)
    \/ \E p \in Procs : BookFlush(p)
    \/ \E p \in Procs : BookCommit(p)
    \/ \E p \in Procs, id \in CancelIds : CancelRead(p, id)
    \/ \E p \in Procs : CancelCommit(p)

Spec == Init /\ [][Next]_vars

\* One caller, every kind of request, the clock advancing
NextValidation ==
    \/ \E p \in OneThread, r \in Requests : BookValidate(p, r)
    \/ \E p \in OneThread : BookPredict(p)
    \/ \E p \in OneThread : LoadModel(p)
    \/ \E p \in OneThread : BookFlush(p)
    \/ \E p \in OneThread : BookCommit(p)
    \/ Tick

SpecValidation == InitWith(NoModelFile) /\ [][NextValidation]_vars

\* One caller booking under every model load_model may find
NextPredictor ==
    \/ \E p \in OneThread, r \in PredictorRequests : BookValidate(p, r)
    \/ \E p \in OneThread : BookPredict(p)
    \/ \E p \in OneThread : LoadModel(p)
    \/ \E p \in OneThread : BookFlush(p)
    \/ \E p \in OneThread : BookCommit(p)

SpecPredictor == InitWith(ModelFiles) /\ [][NextPredictor]_vars

\* the requests of the lifecycle specification: doctor 1 at Monday 09:00,
\* doctor 2 at Monday 23:45
LifecycleRequests ==
    {BookRequest(11, 1, 1, IsoString(T0900), 30),
     BookRequest(11, 2, 1, NaiveDatetime(T2345), 30)}

\* the dates (Monday, Tuesday, Wednesday) and consultation lengths asked of
\* find_available_slots
FindDates == {0, 1, 2}
FindMinutes == {15, 30}

\* One caller booking, cancelling and listing slots, while appointments are
\* confirmed, completed or marked as no-show between the calls
NextLifecycle ==
    \/ \E p \in OneThread, r \in LifecycleRequests : BookValidate(p, r)
    \/ \E p \in OneThread : BookPredict(p)
    \/ \E p \in OneThread : LoadModel(p)
    \/ \E p \in OneThread : BookFlush(p)
    \/ \E p \in OneThread : BookCommit(p)
    \/ \E p \in OneThread, id \in CancelIds : CancelRead(p, id)
    \/ \E p \in OneThread : CancelCommit(p)
    \/ \E p \in OneThread, d \in DoctorIds, date \in FindDates, m \in FindMinutes :
           FindSlots(p, d, date, m)
    \/ \E id \in CancelIds, s \in ExternalStatuses : ExternalTransition(id, s)

SpecLifecycle == InitWith(NoModelFile) /\ [][NextLifecycle]_vars

\* a doctor_availability row with its primary key, so that two rows may
\* carry the same window
AvailabilityRowWithId(id, doctor, day, from, to, enabled) ==
    [id |-> id, doctor_id |-> doctor, day_of_week |-> day, start_time |-> from,
     end_time |-> to, is_available |-> enabled]

\* time of day h:m in seconds (datetime.time(h, m))
TimeAt(h, m) == h * SecondsPerHour + Minutes(m)

\* doctor 1 on Monday 09:00-17:00, the window of the integration tests
FixtureAvailability ==
    {AvailabilityRowWithId(1, 1, 0, TimeAt(9, 0), TimeAt(17, 0), TRUE)}

\* doctor 1 on Monday: the window 09:00-10:00 twice, 09:30-10:30 overlapping
\* it, 09:05-09:50 off the quarter hours, and a disabled 11:00-12:00
OverlappingAvailability ==
    {AvailabilityRowWithId(1, 1, 0, TimeAt(9, 0), TimeAt(10, 0), TRUE),
     AvailabilityRowWithId(2, 1, 0, TimeAt(9, 0), TimeAt(10, 0), TRUE),
     AvailabilityRowWithId(3, 1, 0, TimeAt(9, 30), TimeAt(10, 30), TRUE),
     AvailabilityRowWithId(4, 1, 0, TimeAt(9, 5), TimeAt(9, 50), TRUE),
     AvailabilityRowWithId(5, 1, 0, TimeAt(11, 0), TimeAt(12, 0), FALSE)}

AvailabilityConfigs == {FixtureAvailability, OverlappingAvailability}

\* the bookings of the slot specification: doctor 1 at Monday 09:30 for 30
\* minutes, at 09:15 for 0 minutes and at 09:45 for -15 minutes
T0930 == At(0, 9, 30, 0)
T0945 == At(0, 9, 45, 0)

SlotRequests ==
    {BookRequest(11, 1, 1, NaiveDatetime(T0930), 30),
     BookRequest(11, 1, 1, NaiveDatetime(T0915), 0),
     BookRequest(11, 1, 1, NaiveDatetime(T0945), 0 - 15)}

\* the consultation lengths asked of find_available_slots, in minutes
SlotMinutes == {0 - 15, 0, 15, 30}
SlotDates == {0, 1}

InitSlots ==
    /\ now = Now0
    /\ appointments = {}
    /\ next_id = 1
    /\ availability \in AvailabilityConfigs
    /\ model_file \in NoModelFile
    /\ column_arithmetic = "raises"
    /\ MODEL_SINGLETON = << >>
    /\ constructed = 0
    /\ pc = [p \in Procs |-> "idle"]
    /\ req = [p \in Procs |-> [op |-> "none"]]
    /\ appointment_dt = [p \in Procs |-> None]
    /\ features = [p \in Procs |-> NoFeatures]
    /\ probability = [p \in Procs |-> None]
    /\ pending = [p \in Procs |-> << >>]
    /\ result = [p \in Procs |-> Failure("")]
    /\ call_no = [p \in Procs |-> 0]
    /\ calls = 0
    /\ key_at_start = [p \in Procs |-> "none"]
    /\ raced = [p \in Procs |-> FALSE]

\* One caller listing slots and booking, under each availability table
NextSlots ==
    \/ \E p \in OneThread, r \in SlotRequests : BookValidate(p, r)
    \/ \E p \in OneThread : BookPredict(p)
    \/ \E p \in OneThread : LoadModel(p)
    \/ \E p \in OneThread : BookFlush(p)
    \/ \E p \in OneThread : BookCommit(p)
    \/ \E p \in OneThread, date \in SlotDates, m \in SlotMinutes :
           FindSlots(p, 1, date, m)

SpecSlots == InitSlots /\ [][NextSlots]_vars

(***************************************************************************)
(* Properties                                                              *)
(***************************************************************************)
\* thread p's last call was a booking and has returned
Booked(p) == pc[p] = "done" /\ req[p].op = "book"

\* that booking passed every check before the prediction
Validated(p) == appointment_dt[p] # None

BookedKey(p) == <<req[p].doctor_id, appointment_dt[p]>>

SlotTaken == Failure("Slot already booked")

\* the half-open intervals [start, start + duration) of two rows overlap
Overlap(a, b) ==
    /\ a.appointment_datetime < b.appointment_datetime + Minutes(b.duration_minutes)
    /\ b.appointment_datetime < a.appointment_datetime + Minutes(a.duration_minutes)

\* C1: no two active (SCHEDULED or CONFIRMED) appointments of one doctor have
\* overlapping intervals [start, start + duration), whatever their starts.
C1_NoActiveOverlap ==
    \A a \in appointments : \A b \in appointments :
        (/\ a.id # b.id
         /\ a.doctor_id = b.doctor_id
         /\ a.status \in ActiveStatus
         /\ b.status \in ActiveStatus) => ~Overlap(a, b)

\* the committed rows that hold a key
RowsOf(key) == {row \in appointments : RowKey(row) = key}

\* every thread has made exactly one call and all of them have returned
OneCallEach ==
    /\ calls = NProcs
    /\ \A p \in Procs : call_no[p] # 0 /\ pc[p] = "done"

\* C2: of the booking calls on one (doctor, start) that pass the checks
\* before the insert, under every interleaving of their flush and commit
\* steps, exactly one returns success and every other one returns the
\* slot-taken rejection: a returned call finds exactly one row holding its
\* key, succeeded iff that row is its own and was otherwise told the slot is
\* taken; and when every thread has made one call, each key so requested
\* has exactly one successful call.
C2_ExactlyOneSuccess ==
    /\ \A p \in Procs :
           (Booked(p) /\ Validated(p)) =>
               /\ Cardinality(RowsOf(BookedKey(p))) = 1
               /\ \A row \in RowsOf(BookedKey(p)) :
                      result[p].success <=> row.by = call_no[p]
               /\ ~result[p].success => result[p] = SlotTaken
    /\ OneCallEach =>
           \A p \in Procs :
               (Booked(p) /\ Validated(p)) =>
                   Cardinality({q \in Procs :
                                   /\ Booked(q) /\ Validated(q)
                                   /\ BookedKey(q) = BookedKey(p)
                                   /\ result[q].success}) = 1

\* two calls with different durations raced for one free (doctor, start);
\* one returned success and the other the slot-taken rejection
C2_Witness ==
    /\ OneCallEach
    /\ \E p \in Procs : \E q \in Procs \ {p} :
           /\ Booked(p) /\ Validated(p) /\ Booked(q) /\ Validated(q)
           /\ BookedKey(p) = BookedKey(q)
           /\ req[p].duration_minutes # req[q].duration_minutes
           /\ raced[p] /\ raced[q]
           /\ key_at_start[p] = "free" /\ key_at_start[q] = "free"
           /\ result[p].success
           /\ result[q] = SlotTaken

\* C3: a booking call made while an active appointment holds its
\* (doctor, start) fails and adds no appointment, and its failure is the
\* slot-taken rejection whenever it passes the checks that come before the
\* insert (past, horizon, existence); a call those checks refuse returns
\* their failure instead.
C3_RepeatRejected ==
    \A p \in Procs :
        (Booked(p) /\ key_at_start[p] = "active") =>
            /\ ~result[p].success
            /\ \A row \in appointments : row.by # call_no[p]
            /\ Validated(p) => result[p] = SlotTaken

\* C3 as stated: every booking call made while an active appointment holds
\* its (doctor, start) returns the slot-taken rejection, whatever else it asks.
C3_EveryRepeatSlotTaken ==
    \A p \in Procs :
        (Booked(p) /\ key_at_start[p] = "active") => result[p] = SlotTaken

\* a call repeated the (doctor, start) of an appointment that was booked
\* before and is still active, and was told the slot is taken
C3_Witness ==
    \E p \in Procs :
        /\ Booked(p) /\ Validated(p)
        /\ key_at_start[p] = "active"
        /\ KeyActive(BookedKey(p))
        /\ result[p] = SlotTaken
        /\ Cardinality(appointments) = 1

\* the weekly window contains [start, start + duration) of the row
WindowContains(w, row) ==
    /\ w.doctor_id = row.doctor_id
    /\ w.is_available
    /\ w.day_of_week = Weekday(row.appointment_datetime)
    /\ w.start_time <= TimeOfDay(row.appointment_datetime)
    /\ TimeOfDay(row.appointment_datetime) + Minutes(row.duration_minutes)
           <= w.end_time

\* C4: every appointment that booking persisted lies inside an enabled
\* availability window of its doctor on the weekday of its start.
C4_InsideEnabledWindow ==
    \A row \in appointments : \E w \in availability : WindowContains(w, row)

\* thread p starts a call in this step
Starts(p) == call_no'[p] # call_no[p]

\* the normalised start the call thread p is in (or was last in) asked for
RequestedStart(r) == normalize_datetime_input(r.appointment_datetime)

PastBooking == Failure("Cannot book in the past")
BeyondHorizonFailure == Failure("Booking too far in future")

\* C5: a booking call whose normalised start is equal to or earlier than the
\* current time returns the past-booking failure in the step that reads the
\* clock, and persists no appointment, then or later.
C5_PastRejected ==
    /\ [][\A p \in Procs :
            (/\ Starts(p)
             /\ req'[p].op = "book"
             /\ ~RequestedStart(req'[p]).exc
             /\ RequestedStart(req'[p]).dt <= now) =>
                /\ pc'[p] = "done"
                /\ result'[p] = PastBooking
                /\ appointments' = appointments
                /\ pending' = pending]_vars
    /\ [](\A p \in Procs :
            (Booked(p) /\ result[p] = PastBooking) =>
                /\ pending[p] = << >>
                /\ \A row \in appointments : row.by # call_no[p])

\* a call asked for a start equal to the current time and was refused
C5_Witness ==
    \E p \in Procs :
        /\ Booked(p)
        /\ ~RequestedStart(req[p]).exc
        /\ RequestedStart(req[p]).dt = now
        /\ result[p] = PastBooking

\* C6: a booking call whose start is later than now + 90 days returns the
\* horizon failure and persists nothing; a start at or before now + 90 days
\* (now + 90d - 1s, and now + 90d exactly) is not refused by the horizon check.
C6_HorizonBoundary ==
    [][\A p \in Procs :
         (/\ Starts(p)
          /\ req'[p].op = "book"
          /\ ~RequestedStart(req'[p]).exc) =>
             LET dt == RequestedStart(req'[p]).dt
                 limit == now + Days(MAX_BOOKING_DAYS_AHEAD)
             IN  /\ dt > limit =>
                        /\ pc'[p] = "done"
                        /\ result'[p] = BeyondHorizonFailure
                        /\ appointments' = appointments
                        /\ pending' = pending
                 /\ dt <= limit => result'[p] # BeyondHorizonFailure]_vars

\* a call asked for now + 90 days + 1 second and was refused for the horizon
C6_Witness ==
    \E p \in Procs :
        /\ Booked(p)
        /\ ~RequestedStart(req[p]).exc
        /\ RequestedStart(req[p]).dt = now + Days(MAX_BOOKING_DAYS_AHEAD) + 1
        /\ result[p] = BeyondHorizonFailure

NotFoundMessages == {"Patient not found", "Doctor not found", "Hospital not found"}

\* C7: the existence of patient, doctor and hospital is checked before the
\* start is: a returned call that named an unknown patient, doctor or
\* hospital was refused as not found, whatever its start (an unknown patient
\* with a past start yields the not-found failure, not the past-booking one).
C7_ExistenceCheckedFirst ==
    \A p \in Procs :
        (/\ Booked(p)
         /\ ~RequestedStart(req[p]).exc
         /\ \/ req[p].patient_id \notin PatientIds
            \/ req[p].doctor_id \notin DoctorIds
            \/ req[p].hospital_id \notin HospitalIds) =>
            result[p].message \in NotFoundMessages

\* the configured model is one whose scoring raises
ScoringRaises ==
    /\ model_file.state = "ok"
    /\ model_file.model.raises
    /\ model_file.model.truthy
    /\ model_file.model.has_predict_proba \/ model_file.model.has_predict

\* C8: when the configured model's scoring raises, every appointment a
\* booking persists, and every probability a booking returns, carries the
\* default probability 0.5.
C8_ScoringFailureGivesDefault ==
    ScoringRaises =>
        /\ \A row \in appointments :
               row.no_show_probability = BOOKING_DEFAULT_PROBABILITY
        /\ \A p \in Procs :
               (Booked(p) /\ result[p].success) =>
                   result[p].no_show_probability = BOOKING_DEFAULT_PROBABILITY

\* C9: every persisted appointment and every probability a successful booking
\* returns has its no-show probability within [0, 1], whatever the model
\* returns.
C9_ProbabilityInUnitInterval ==
    /\ \A row \in appointments :
           row.no_show_probability >= 0 /\ row.no_show_probability <= ONE
    /\ \A p \in Procs :
           (Booked(p) /\ result[p].success) =>
               /\ result[p].no_show_probability >= 0
               /\ result[p].no_show_probability <= ONE

\* the ids of the committed rows
CommittedIds == {row.id : row \in appointments}

\* C10: when the uniqueness constraint on (doctor, start) rejects the insert,
\* the call returns the slot-taken rejection, its transaction holds nothing
\* and no row is added; a row only ever becomes visible in the commit of the
\* call that then returns success with it, so no row of a rejected call is
\* visible at any time.
C10_IntegrityErrorIsSlotTaken ==
    /\ [][\A p \in Procs :
            (/\ pc[p] = "flush"
             /\ KeyCommitted(InFlightKey(p))
             /\ pc'[p] # "flush") =>
                /\ pc'[p] = "done"
                /\ result'[p] = SlotTaken
                /\ pending'[p] = << >>
                /\ appointments' = appointments]_vars
    /\ [][\A row \in appointments' :
            row.id \notin CommittedIds =>
                \E p \in Procs :
                    /\ pc[p] = "commit"
                    /\ row.by = call_no[p]
                    /\ result'[p] = BookSuccess(row.id, row.no_show_probability)]_vars
    /\ [](\A p \in Procs :
            (Booked(p) /\ Validated(p) /\ ~result[p].success) =>
                /\ result[p] = SlotTaken
                /\ pending[p] = << >>
                /\ \A row \in appointments : row.by # call_no[p])

\* a call lost a race for its (doctor, start): the constraint rejected its
\* insert once the winner had committed
C10_Witness ==
    \E p \in Procs :
        /\ Booked(p) /\ Validated(p)
        /\ raced[p]
        /\ key_at_start[p] = "free"
        /\ result[p] = SlotTaken
        /\ KeyCommitted(BookedKey(p))

\* C11: a booking call that returns a failure leaves the appointments table
\* as it was: the committed rows change only in the commit step of a booking
\* that returns success (no other step of a booking call writes), and a call
\* that returned a failure holds no uncommitted row and made no committed one.
C11_FailureLeavesAppointments ==
    /\ [][appointments' # appointments =>
            \E p \in Procs :
                /\ pc[p] = "commit"
                /\ req[p].op = "book"
                /\ pc'[p] = "done"
                /\ result'[p].success]_vars
    /\ [](\A p \in Procs :
            (Booked(p) /\ ~result[p].success) =>
                /\ pending[p] = << >>
                /\ \A row \in appointments : row.by # call_no[p])

\* a booking was refused as slot-taken after an earlier one had been committed
C11_Witness ==
    \E p \in Procs :
        /\ Booked(p)
        /\ ~result[p].success
        /\ result[p].message = "Slot already booked"
        /\ appointments # {}
        /\ call_no[p] > 1

\* thread p starts a cancel_appointment call in this step
StartsCancel(p) == Starts(p) /\ req'[p].op = "cancel"

\* the committed row with this id, as a set (empty when there is none)
RowsWithId(id) == {row \in appointments : row.id = id}

\* C12: cancel_appointment succeeds only on an appointment whose status is
\* SCHEDULED or CONFIRMED: a call on an appointment in any other status
\* (CANCELLED, COMPLETED, NO_SHOW) returns a failure at once and changes
\* nothing, and a cancellation only ever commits on an active appointment.
C12_CancelOnlyFromActive ==
    /\ [][\A p \in Procs :
            StartsCancel(p) =>
                \A row \in RowsWithId(req'[p].appointment_id) :
                    row.status \notin ActiveStatus =>
                        /\ pc'[p] = "done"
                        /\ ~result'[p].success
                        /\ appointments' = appointments]_vars
    /\ [][\A p \in Procs :
            (pc[p] = "cancel_commit" /\ pc'[p] = "done") =>
                \A row \in RowsWithId(req[p].appointment_id) :
                    row.status \in ActiveStatus]_vars

\* C13: cancelling an active appointment twice in sequence succeeds exactly
\* once.  A call on an active appointment goes on to commit, the commit
\* returns success and leaves the appointment CANCELLED; a CANCELLED
\* appointment never changes again, and every call on it returns a failure
\* at once and changes nothing.
C13_SecondCancelFails ==
    /\ [][\A p \in Procs :
            StartsCancel(p) =>
                \A row \in RowsWithId(req'[p].appointment_id) :
                    /\ row.status \in ActiveStatus => pc'[p] = "cancel_commit"
                    /\ row.status = "CANCELLED" =>
                           /\ pc'[p] = "done"
                           /\ ~result'[p].success
                           /\ appointments' = appointments]_vars
    /\ [][\A p \in Procs :
            (pc[p] = "cancel_commit" /\ pc'[p] = "done") =>
                /\ result'[p] = CancelSuccess
                /\ \A row \in appointments' :
                       row.id = req[p].appointment_id => row.status = "CANCELLED"]_vars
    /\ [][\A row \in appointments :
            row.status = "CANCELLED" => row \in appointments']_vars

\* a cancellation of an appointment that an earlier call had booked and a
\* later one cancelled was refused
C13_Witness ==
    \E p \in Procs :
        /\ pc[p] = "done"
        /\ req[p].op = "cancel"
        /\ result[p] = Failure("Cannot cancel this appointment")
        /\ call_no[p] > 2
        /\ \E row \in RowsWithId(req[p].appointment_id) :
               /\ row.status = "CANCELLED"
               /\ row.updated_at # None
               /\ row.by = 1

\* C14: the commit of a successful cancel_appointment leaves the appointment
\* with status CANCELLED and with its cancellation timestamp cancelled_at set.
C14_CancelledAtRecorded ==
    [][\A p \in Procs :
         (pc[p] = "cancel_commit" /\ pc'[p] = "done" /\ result'[p].success) =>
             \A row \in appointments' :
                 row.id = req[p].appointment_id =>
                     /\ row.status = "CANCELLED"
                     /\ row.cancelled_at # None]_vars

\* the cases in which cancel_appointment must fail distinguishably: no such
\* appointment, already cancelled, completed
CancelFailureCases == {"missing", "CANCELLED", "COMPLETED"}

\* C15: the failures of cancel_appointment are pairwise distinguishable: the
\* failure a call returns for an unknown id, for a cancelled appointment or
\* for a completed one is a failure it returns in no other of these cases.
C15_CancelFailuresDistinct ==
    [][\A p \in Procs :
         (/\ StartsCancel(p)
          /\ CancelCase(req'[p].appointment_id) \in CancelFailureCases) =>
             /\ pc'[p] = "done"
             /\ ~result'[p].success
             /\ \A other \in CancelFailureCases \ {CancelCase(req'[p].appointment_id)} :
                    result'[p] # CancelFailure(other)]_vars

\* C16: a booking call that passes the checks before the insert, made when
\* the only appointment at its (doctor, start) is in a terminal status
\* (CANCELLED, COMPLETED or NO_SHOW) and with no other call booking that
\* slot, succeeds: a terminal appointment causes no slot-taken rejection.
C16_RebookAfterCancel ==
    \A p \in Procs :
        (/\ Booked(p)
         /\ Validated(p)
         /\ key_at_start[p] = "inactive"
         /\ ~raced[p]) =>
            /\ result[p].success
            /\ result[p] # SlotTaken

\* the date (day number) on which an instant falls
DateOf(t) == t \div SecondsPerDay

\* C17: an appointment in a terminal status (CANCELLED, COMPLETED, NO_SHOW)
\* consumes no availability: for every doctor, date and consultation length
\* find_available_slots returns what it returns over the table without that
\* appointment, so cancelling a booking restores the slots of before it.
C17_CancelRestoresSlots ==
    \A row \in appointments :
        row.status \notin ActiveStatus =>
            \A d \in DoctorIds, date \in FindDates, m \in FindMinutes :
                find_available_slots(d, date, m)
                    = sorted(AvailableSlots(appointments \ {row}, d, date, m))

\* a cancelled appointment that took slots away while it was scheduled: the
\* slots of its doctor and date differ once its status is put back
C17_Witness ==
    \E row \in appointments :
        /\ row.status = "CANCELLED"
        /\ \E m \in FindMinutes :
               /\ AvailableSlots(appointments, row.doctor_id,
                                 DateOf(row.appointment_datetime), m)
                      # AvailableSlots((appointments \ {row})
                                           \cup {[row EXCEPT !.status = "SCHEDULED"]},
                                       row.doctor_id,
                                       DateOf(row.appointment_datetime), m)
               /\ row.appointment_datetime
                      \in AvailableSlots(appointments, row.doctor_id,
                                         DateOf(row.appointment_datetime), m)

\* thread p runs find_available_slots in this step
FindReturns(p) ==
    /\ pc[p] \in {"idle", "done"}
    /\ req'[p].op = "find"
    /\ pc'[p] = "done"
    /\ req'[p] # req[p] \/ result'[p] # result[p]

\* the interval [s, s + c minutes) lies inside an enabled availability
\* window of the doctor, anchored on the date
InsideEnabledWindow(doctor, date, s, c) ==
    \E a \in availability :
        /\ a.doctor_id = doctor
        /\ a.is_available
        /\ a.day_of_week = Weekday(Days(date))
        /\ Days(date) + a.start_time <= s
        /\ s + Minutes(c) <= Days(date) + a.end_time

\* the interval [s, s + c minutes) overlaps an active appointment of the doctor
OverlapsActive(doctor, s, c) ==
    \E row \in appointments :
        /\ row.doctor_id = doctor
        /\ row.status \in ActiveStatus
        /\ s < row.appointment_datetime + Minutes(row.duration_minutes)
        /\ row.appointment_datetime < s + Minutes(c)

\* C18: every slot s that find_available_slots(doctor, date, c) returns has
\* [s, s + c) inside an enabled availability window of the doctor for the
\* date's weekday and overlapping no SCHEDULED or CONFIRMED appointment of
\* the doctor, whichever day that appointment starts on.
C18_SlotsFreeAndInsideWindow ==
    [][\A p \in Procs :
         FindReturns(p) =>
             \A i \in 1 .. Len(result'[p].slots) :
                 /\ InsideEnabledWindow(req'[p].doctor_id, req'[p].date,
                                        result'[p].slots[i],
                                        req'[p].consultation_minutes)
                 /\ ~OverlapsActive(req'[p].doctor_id, result'[p].slots[i],
                                    req'[p].consultation_minutes)]_vars

\* the doctor has no availability row with is_available true on the weekday
\* of the date
NoEnabledAvailability(doctor, date) ==
    ~\E a \in availability :
        /\ a.doctor_id = doctor
        /\ a.day_of_week = Weekday(Days(date))
        /\ a.is_available

\* C19: when the doctor has no availability row with is_available true for
\* the weekday of the date (no rows, or only disabled ones),
\* find_available_slots returns the empty sequence, whatever appointments exist.
C19_NoEnabledWindowNoSlots ==
    [][\A p \in Procs :
         (FindReturns(p) /\ NoEnabledAvailability(req'[p].doctor_id, req'[p].date)) =>
             result'[p] = SlotsResult(<< >>)]_vars

\* find_available_slots returned nothing for a doctor and date with only a
\* disabled availability row, while the doctor had an active appointment
C19_Witness ==
    \E p \in Procs :
        /\ pc[p] = "done"
        /\ req[p].op = "find"
        /\ NoEnabledAvailability(req[p].doctor_id, req[p].date)
        /\ \E a \in availability :
               /\ a.doctor_id = req[p].doctor_id
               /\ a.day_of_week = Weekday(Days(req[p].date))
               /\ ~a.is_available
        /\ result[p] = SlotsResult(<< >>)
        /\ \E row \in appointments :
               row.doctor_id = req[p].doctor_id /\ row.status \in ActiveStatus

\* the slots of a returned sequence, as a set
SlotsOf(res) == {res.slots[i] : i \in 1 .. Len(res.slots)}

C21_SlotsStrictlyAscending ==
    [][\A p \in Procs :
         FindReturns(p) =>
             \A i \in 1 .. Len(result'[p].slots) :
                 \A j \in 1 .. Len(result'[p].slots) :
                     i < j => result'[p].slots[i] < result'[p].slots[j]]_vars

\* the candidate instants of an availability row for a consultation length,
\* before any conflict is looked at
Candidates(a, date, c) == WindowSlots(a, Days(date), c, {})

\* find_available_slots returned several slots, one of which is a candidate
\* of two coinciding windows and of a third one that overlaps them
C21_Witness ==
    \E p \in Procs :
        /\ pc[p] = "done"
        /\ req[p].op = "find"
        /\ Len(result[p].slots) > 1
        /\ \E a \in availability, b \in availability, c \in availability :
               /\ a.is_available /\ b.is_available /\ c.is_available
               /\ a.id # b.id
               /\ a.start_time = b.start_time /\ a.end_time = b.end_time
               /\ c.start_time > a.start_time /\ c.start_time < a.end_time
               /\ \E s \in SlotsOf(result[p]) :
                      /\ s \in Candidates(a, req[p].date, req[p].consultation_minutes)
                      /\ s \in Candidates(b, req[p].date, req[p].consultation_minutes)
                      /\ s \in Candidates(c, req[p].date, req[p].consultation_minutes)

\* the doctor has no SCHEDULED or CONFIRMED appointment
NoActiveAppointments(doctor) ==
    ~\E row \in appointments : row.doctor_id = doctor /\ row.status \in ActiveStatus

\* quarter hours in a day and a quarter: more steps than any window admits
MaxSteps == (SecondsPerDay + SecondsPerDay \div 4) \div Minutes(SLOT_INCREMENT_MINUTES)

\* the instants ws + 15k minutes, k >= 0, with ws + 15k + c <= we, of the
\* doctor's enabled windows [ws, we) of the date's weekday
StrideInstants(doctor, date, c) ==
    UNION {{Days(date) + a.start_time + k * Minutes(15) : k \in
               {n \in 0 .. MaxSteps :
                   Days(date) + a.start_time + n * Minutes(15) + Minutes(c)
                       <= Days(date) + a.end_time}} :
           a \in {w \in availability :
                     /\ w.doctor_id = doctor
                     /\ w.day_of_week = Weekday(Days(date))
                     /\ w.is_available}}

\* C22: with no active appointments, find_available_slots returns exactly
\* the instants ws + 15k minutes (k >= 0) with ws + 15k + c <= we of each
\* enabled window [ws, we), counted from that window's own start; for the
\* window 09:00-17:00 and c = 30 these are the 31 instants 09:00, 09:15,
\* ..., 16:30, so 16:30 is included and 16:45 is not.
C22_SlotsOnWindowStride ==
    [][\A p \in Procs :
         (FindReturns(p) /\ NoActiveAppointments(req'[p].doctor_id)) =>
             /\ SlotsOf(result'[p])
                    = StrideInstants(req'[p].doctor_id, req'[p].date,
                                     req'[p].consultation_minutes)
             /\ (/\ availability = FixtureAvailability
                 /\ req'[p].date = 0
                 /\ req'[p].consultation_minutes = 30) =>
                    /\ Len(result'[p].slots) = 31
                    /\ \A i \in 1 .. 31 :
                           result'[p].slots[i]
                               = At(0, 9, 0, 0) + (i - 1) * Minutes(15)
                    /\ At(0, 16, 30, 0) \in SlotsOf(result'[p])
                    /\ At(0, 16, 45, 0) \notin SlotsOf(result'[p])]_vars

\* find_available_slots listed the 09:00-17:00 window for 30 minutes with no
\* appointment in the table: 31 slots, the last of them 16:30
C22_Witness ==
    \E p \in Procs :
        /\ pc[p] = "done"
        /\ req[p] = FindRequest(1, 0, 30)
        /\ availability = FixtureAvailability
        /\ appointments = {}
        /\ Len(result[p].slots) = 31
        /\ result[p].slots[31] = At(0, 16, 30, 0)

\* C23: find_available_slots called with consultation_minutes <= 0 returns a
\* validation failure and never a list of slots.
C23_NonPositiveMinutesRefused ==
    [][\A p \in Procs :
         (FindReturns(p) /\ req'[p].consultation_minutes <= 0) =>
             /\ ~result'[p].success
             /\ "slots" \notin DOMAIN result'[p]]_vars

\* C24: every appointment in the table has duration_minutes > 0: a booking
\* requested with a duration of 0 or less is never persisted.
C24_DurationPositive ==
    \A row \in appointments : row.duration_minutes > 0

\* C26: under any interleaving of concurrent first calls of get_predictor the
\* NoShowPredictor is constructed exactly once, every caller receives that
\* one instance (no call constructs its own while the singleton is set), and
\* the singleton, once set, is never replaced.
C26_PredictorConstructedOnce ==
    /\ [](constructed <= 1)
    /\ [][\A p \in Procs :
            (pc[p] = "load" /\ pc'[p] # "load") => MODEL_SINGLETON = << >>]_vars
    /\ [][MODEL_SINGLETON # << >> => MODEL_SINGLETON' = MODEL_SINGLETON]_vars

\* the probability the predictor produces for `features` when no real model
\* is configured (load_model found no file and wrapped the dummy model)
NoRealModelProbability(fv) ==
    predict([instance |-> 0, model |-> DummyModel], fv).probability

\* C27: the predictor has one fallback: when the configured model's scoring
\* raises, the probability a booking receives for its feature vector is the
\* probability the predictor produces for the same vector when no real model
\* is configured.
C27_SingleFallback ==
    \A p \in Procs :
        (ScoringRaises /\ Booked(p) /\ pc[p] \in {"flush", "commit", "done"}
            /\ appointment_dt[p] # None) =>
            probability[p]
                = NoRealModelProbability(
                      build_features(DEFAULT_CONSULTATION_DURATION,
                                     appointment_dt[p], now))

(***************************************************************************)
(* The feature vector: one caller, one booking, its start drawn from every *)
(* hour of the seven days that follow the Monday of Now0, given as a naive *)
(* datetime, as an ISO string or as an aware datetime at UTC+1.            *)
(***************************************************************************)
FeatureDays == 1 .. 7
FeatureHours == 0 .. 23
FeatureMinuteSet == {0, 59}

FeatureStarts ==
    {At(d, h, m, 0) : d \in FeatureDays, h \in FeatureHours, m \in FeatureMinuteSet}

FeatureRequests ==
    {BookRequest(11, 1, 1, NaiveDatetime(t), 30) : t \in FeatureStarts}
        \cup {BookRequest(11, 1, 1, AwarePlusOne(t), 30) : t \in FeatureStarts}

NextFeatures ==
    \/ \E p \in OneThread, r \in FeatureRequests : calls = 0 /\ BookValidate(p, r)
    \/ \E p \in OneThread : BookPredict(p)
    \/ \E p \in OneThread : LoadModel(p)
    \/ \E p \in OneThread : BookFlush(p)
    \/ \E p \in OneThread : BookCommit(p)

SpecFeatures == InitWith(NoModelFile) /\ [][NextFeatures]_vars

\* the call of thread p has built its feature vector
FeaturesBuilt(p) == req[p].op = "book" /\ ~features[p].exc

\* the bucket the hour h of a start belongs to
ExpectedBucket(h) ==
    CASE h \in 0 .. 8 -> 0
      [] h \in 9 .. 11 -> 1
      [] h \in 12 .. 16 -> 2
      [] h \in 17 .. 23 -> 3

\* C28: for a start at hour h (0..23) of day d, counted from a Monday, the
\* feature vector build_features returns has time_of_day_bucket 0 if h < 9,
\* 1 if 9 <= h < 12, 2 if 12 <= h < 17 and 3 otherwise, and day_of_week
\* d mod 7, so that Monday is 0.
C28_BucketAndWeekday ==
    \A p \in Procs :
        FeaturesBuilt(p) =>
            \A d \in FeatureDays, h \in 0 .. 23, m \in FeatureMinuteSet :
                RequestedStart(req[p]).dt = At(d, h, m, 0) =>
                    /\ features[p].time_of_day_bucket = ExpectedBucket(h)
                    /\ features[p].day_of_week = d % 7

\* the vector of a start on a Sunday at 17:00 has been built: bucket 3, day 6
C28_Witness ==
    \E p \in Procs :
        /\ FeaturesBuilt(p)
        /\ RequestedStart(req[p]).dt = At(6, 17, 0, 0)
        /\ features[p].time_of_day_bucket = 3
        /\ features[p].day_of_week = 6

(***************************************************************************)
(* Every entry point that cancels: one caller booking, then cancelling     *)
(* through the service, through the patient route and through the second   *)
(* implementation of the service, while appointments are confirmed,        *)
(* completed or marked as no-show between the calls.                       *)
(***************************************************************************)
CancelPathRequests == {BookRequest(11, 1, 1, IsoString(T0900), 30)}

NextCancelPaths ==
    \/ \E p \in OneThread, r \in CancelPathRequests : BookValidate(p, r)
    \/ \E p \in OneThread : BookPredict(p)
    \/ \E p \in OneThread : LoadModel(p)
    \/ \E p \in OneThread : BookFlush(p)
    \/ \E p \in OneThread : BookCommit(p)
    \/ \E p \in OneThread, id \in CancelIds : CancelRead(p, id)
    \/ \E p \in OneThread : CancelCommit(p)
    \/ \E p \in OneThread, id \in CancelIds : RouteCancel(p, id)
    \/ \E p \in OneThread, id \in CancelIds : UnitCancel(p, id)
    \/ \E id \in CancelIds, s \in ExternalStatuses : ExternalTransition(id, s)

SpecCancelPaths == InitWith(NoModelFile) /\ [][NextCancelPaths]_vars

\* the calls that cancel: the service, the patient route, the second
\* implementation of the service
CancelOps == {"cancel", "route_cancel", "unit_cancel"}

\* thread p begins a call of one of the cancelling entry points
StartsAnyCancel(p) == call_no'[p] # call_no[p] /\ req'[p].op \in CancelOps

\* C30: every row's status is a member of AppointmentStatus; whatever entry
\* point cancels (the service, the patient route /cancel/<id>, the second
\* implementation), a row becomes CANCELLED only from SCHEDULED or CONFIRMED;
\* and a cancelling call on an appointment that is already CANCELLED fails.
C30_CancelOnlyFromActiveAnywhere ==
    /\ [](\A row \in appointments : row.status \in AppointmentStatus)
    /\ [][\A row \in appointments :
            \A after \in appointments' :
                (/\ after.id = row.id
                 /\ after.status = "CANCELLED"
                 /\ row.status # "CANCELLED") => row.status \in ActiveStatus]_vars
    /\ [][\A p \in Procs :
            StartsAnyCancel(p) =>
                \A row \in RowsWithId(req'[p].appointment_id) :
                    row.status = "CANCELLED" => ~result'[p].success]_vars

(***************************************************************************)
(* Both implementations of the service over one table: one caller booking  *)
(* and listing slots through scheduling.py and through the second          *)
(* implementation, while appointments are confirmed, completed or marked   *)
(* as no-show between the calls, in a build of either column arithmetic.   *)
(***************************************************************************)
InitPaths ==
    /\ now = Now0
    /\ appointments = {}
    /\ next_id = 1
    /\ availability = SeedAvailability
    /\ model_file \in NoModelFile
    /\ column_arithmetic \in ColumnArithmetic
    /\ MODEL_SINGLETON = << >>
    /\ constructed = 0
    /\ pc = [p \in Procs |-> "idle"]
    /\ req = [p \in Procs |-> [op |-> "none"]]
    /\ appointment_dt = [p \in Procs |-> None]
    /\ features = [p \in Procs |-> NoFeatures]
    /\ probability = [p \in Procs |-> None]
    /\ pending = [p \in Procs |-> << >>]
    /\ result = [p \in Procs |-> Failure("")]
    /\ call_no = [p \in Procs |-> 0]
    /\ calls = 0
    /\ key_at_start = [p \in Procs |-> "none"]
    /\ raced = [p \in Procs |-> FALSE]

\* scheduling.book_appointment: doctor 1 on Monday at 09:00 for 30 minutes
PathRequests == {BookRequest(11, 1, 1, IsoString(T0900), 30)}

\* the second book_appointment: doctor 1 on Monday at 09:00 and at 09:15,
\* at 20:00 (outside the window), on Tuesday (no enabled row), an unknown
\* patient, and no datetime
UnitRequests ==
    {UnitBookRequest(11, 1, 1, NaiveDatetime(T0900), 30),
     UnitBookRequest(11, 1, 1, NaiveDatetime(T0915), 30),
     UnitBookRequest(11, 1, 1, NaiveDatetime(T2000), 30),
     UnitBookRequest(11, 1, 1, NaiveDatetime(At(1, 9, 0, 0)), 30),
     UnitBookRequest(UnknownPatientId, 1, 1, NaiveDatetime(T0915), 30),
     UnitBookRequest(11, 1, 1, NoDatetime, 30)}

PathFindDates == {0, 1}
PathFindMinutes == {30}

NextPaths ==
    \/ \E p \in OneThread, r \in PathRequests : BookValidate(p, r)
    \/ \E p \in OneThread : BookPredict(p)
    \/ \E p \in OneThread : LoadModel(p)
    \/ \E p \in OneThread : BookFlush(p)
    \/ \E p \in OneThread : BookCommit(p)
    \/ \E p \in OneThread, r \in UnitRequests : UnitBook(p, r)
    \/ \E p \in OneThread, date \in PathFindDates, m \in PathFindMinutes :
           FindSlots(p, 1, date, m)
    \/ \E p \in OneThread, date \in PathFindDates, m \in PathFindMinutes :
           UnitFindSlots(p, 1, date, m)
    \/ \E id \in CancelIds, s \in ExternalStatuses : ExternalTransition(id, s)

SpecPaths == InitPaths /\ [][NextPaths]_vars

\* thread p's booking commits in this step, through either implementation
BookingSucceeds(p) ==
    \/ pc[p] = "commit" /\ pc'[p] = "done" /\ req[p].op = "book"
    \/ Starts(p) /\ req'[p].op = "unit_book" /\ result'[p].success

SwapActive(table) ==
    {[row EXCEPT !.status = IF @ = "SCHEDULED" THEN "CONFIRMED"
                            ELSE IF @ = "CONFIRMED" THEN "SCHEDULED" ELSE @] :
        row \in table}

\* the table without the rows that are neither SCHEDULED nor CONFIRMED
OnlyActive(table) == {row \in table : row.status \in ActiveStatus}

\* thread p's find_available_slots of the second implementation returns a
\* list in this step
UnitFindReturns(p) ==
    Starts(p) /\ req'[p].op = "unit_find" /\ result'[p].success

\* thread p's book_appointment of the second implementation runs its
\* overlap query in this step
UnitBookQueries(p) ==
    /\ Starts(p)
    /\ req'[p].op = "unit_book"
    /\ column_arithmetic = "minutes"
    /\ \E avail \in UnitFirstAvailability(req'[p]) :
           UnitValidate(req'[p], avail) = ""

NormalizeRequests ==
    {BookRequest(11, 1, 1, NaiveDatetime(T0900), 30),
     BookRequest(11, 1, 1, IsoString(T0900), 30),
     BookRequest(11, 1, 1, WithMicroseconds(T0900), 30),
     BookRequest(11, 1, 1, AwarePlusOne(T0900), 30)}

NextNormalize ==
    \/ \E p \in Procs, r \in NormalizeRequests : BookValidate(p, r)
    \/ \E p \in Procs : BookPredict(p)
    \/ \E p \in Procs : LoadModel(p)
    \/ \E p \in Procs : BookFlush(p)
    \/ \E p \in Procs : BookCommit(p)

SpecNormalize == Init /\ [][NextNormalize]_vars

\* the second a datetime or string denotes: its wall clock for a naive
\* value, its wall clock less its offset for an aware one
InstantOf(value) == value.wall - (IF value.aware THEN value.offset ELSE 0)

\* thread p is in (or was last in) a booking whose start is a datetime or a
\* well-formed string
BookingWithStart(p) ==
    req[p].op = "book" /\ req[p].appointment_datetime.kind \in {"datetime", "str"}

\* C31: _normalize_datetime_input returns, for a naive datetime or string,
\* its wall clock tagged UTC and, for an aware datetime, the same instant in
\* UTC, in both cases without microseconds, and normalising its result again
\* changes nothing; so the start a booking works with is the second its
\* argument denotes, a booking succeeds only when no row of the doctor
\* holds that second, and a booking whose insert finds such a row is
\* refused as slot taken.
C31_NormalizedStartIsKey ==
    /\ [](\A p \in Procs :
            BookingWithStart(p) =>
                LET value == req[p].appointment_datetime
                    out == normalized_datetime(value)
                IN  /\ out.wall = InstantOf(value)
                    /\ out.aware /\ out.offset = 0 /\ out.micro = 0
                    /\ out.kind = "datetime"
                    /\ normalized_datetime(out) = out
                    /\ normalize_datetime_input(out)
                           = normalize_datetime_input(value)
                    /\ Validated(p) => appointment_dt[p] = InstantOf(value))
    /\ [][\A p \in Procs :
            (pc[p] = "commit" /\ pc'[p] = "done") =>
                /\ result'[p].success
                /\ \A row \in appointments :
                       row.doctor_id = req[p].doctor_id =>
                           row.appointment_datetime
                               # InstantOf(req[p].appointment_datetime)]_vars
    /\ [][\A p \in Procs :
            (/\ pc[p] = "flush"
             /\ pc'[p] # "flush"
             /\ \E row \in appointments :
                    /\ row.doctor_id = req[p].doctor_id
                    /\ row.appointment_datetime
                           = InstantOf(req[p].appointment_datetime)) =>
                /\ pc'[p] = "done"
                /\ result'[p] = SlotTaken]_vars

\* an aware UTC+1 request for 10:00 lost to the row another caller made
\* from a naive 09:00:00.500000
C31_Witness ==
    \E p \in Procs, q \in Procs :
        /\ p # q
        /\ Booked(p)
        /\ req[p].appointment_datetime = AwarePlusOne(T0900)
        /\ result[p] = SlotTaken
        /\ Booked(q)
        /\ req[q].appointment_datetime = WithMicroseconds(T0900)
        /\ result[q].success
        /\ \E row \in appointments :
               /\ row.id = result[q].appointment_id
               /\ row.doctor_id = req[p].doctor_id
               /\ row.appointment_datetime = T0900

\* the doctor's SCHEDULED and CONFIRMED appointments that start on the date:
\* the appointments find_available_slots compares its candidates with
DayActive(doctor, date) ==
    {row \in appointments :
        /\ row.doctor_id = doctor
        /\ row.status \in ActiveStatus
        /\ row.appointment_datetime >= Days(date)
        /\ row.appointment_datetime < Days(date + 1)}

\* the end of an appointment
EndOf(row) == row.appointment_datetime + Minutes(row.duration_minutes)

\* some minute lies in both [a, b) and [c, d)
SharesMinute(a, b, c, d) ==
    \E m \in a \div SecondsPerMinute .. (b - 1) \div SecondsPerMinute :
        /\ a <= Minutes(m) /\ Minutes(m) < b
        /\ c <= Minutes(m) /\ Minutes(m) < d

\* C32: find_available_slots keeps a candidate [s, s + c) exactly when no
\* active appointment [a, b) it compares with has s < b and a < s + c: a
\* candidate that only touches the appointments (s + c = a or s = b) is
\* kept, a candidate that shares a minute with one of them is dropped, and
\* the test gives the same answer with the two intervals exchanged.
C32_HalfOpenConflict ==
    [][\A p \in Procs :
         FindReturns(p) =>
             LET c == Minutes(req'[p].consultation_minutes)
                 rows == DayActive(req'[p].doctor_id, req'[p].date)
             IN  \A s \in StrideInstants(req'[p].doctor_id, req'[p].date,
                                         req'[p].consultation_minutes) :
                     /\ s \in SlotsOf(result'[p]) <=>
                            \A row \in rows :
                                ~(s < EndOf(row) /\ row.appointment_datetime < s + c)
                     /\ (\A row \in rows :
                            s + c = row.appointment_datetime \/ s = EndOf(row))
                            => s \in SlotsOf(result'[p])
                     /\ \A row \in rows :
                            /\ SharesMinute(s, s + c, row.appointment_datetime,
                                            EndOf(row))
                                   => s \notin SlotsOf(result'[p])
                            /\ Conflict(s, s + c,
                                        {<<row.appointment_datetime, EndOf(row)>>})
                                   = Conflict(row.appointment_datetime, EndOf(row),
                                              {<<s, s + c>>})]_vars

\* with the appointment 09:30-10:00 active, find_available_slots for 30
\* minutes offered 09:00 (which ends at 09:30) and 10:00, and neither 09:15
\* nor 09:45
C32_Witness ==
    \E p \in Procs :
        /\ pc[p] = "done"
        /\ req[p] = FindRequest(1, 0, 30)
        /\ \E row \in appointments :
               /\ row.doctor_id = 1
               /\ row.status \in ActiveStatus
               /\ row.appointment_datetime = T0930
               /\ row.duration_minutes = 30
        /\ T0900 \in SlotsOf(result[p])
        /\ At(0, 10, 0, 0) \in SlotsOf(result[p])
        /\ T0915 \notin SlotsOf(result[p])
        /\ T0945 \notin SlotsOf(result[p])

\* C33: no two rows of the appointments table, whatever their status, have
\* the same doctor_id and appointment_datetime.
C33_KeyUniqueOverAllStatuses ==
    \A r1 \in appointments, r2 \in appointments :
        (/\ r1.doctor_id = r2.doctor_id
         /\ r1.appointment_datetime = r2.appointment_datetime) => r1 = r2

\* a booking for the (doctor, start) of a CANCELLED row was refused, and the
\* CANCELLED row is still the only one with that key
C33_Witness ==
    \E p \in Procs :
        /\ Booked(p) /\ Validated(p)
        /\ result[p] = SlotTaken
        /\ \E row \in appointments :
               /\ RowKey(row) = BookedKey(p)
               /\ row.status = "CANCELLED"

\* threads p and q are in, or have returned from, cancel_appointment calls
\* for one appointment
CancelSameAppointment(p, q) ==
    /\ p # q
    /\ req[p].op = "cancel" /\ req[q].op = "cancel"
    /\ req[p].appointment_id = req[q].appointment_id

\* C34: of two concurrent cancel_appointment calls for one active
\* appointment at most one returns success: two callers are never both past
\* the check of the status and before their commit, and never both hold a
\* success for the same appointment.
C34_OneConcurrentCancelSucceeds ==
    \A p \in Procs, q \in Procs :
        CancelSameAppointment(p, q) =>
            /\ ~(pc[p] = "cancel_commit" /\ pc[q] = "cancel_commit")
            /\ ~(/\ pc[p] = "done" /\ result[p] = CancelSuccess
                 /\ pc[q] = "done" /\ result[q] = CancelSuccess)

(***************************************************************************)
(* The scheduling core under concurrency: two callers booking doctor 1 at  *)
(* Monday 09:00, cancelling and listing the Monday's slots.                *)
(***************************************************************************)
NextCore ==
    \/ \E p \in Procs, r \in CancelPathRequests : BookValidate(p, r)
    \/ \E p \in Procs : BookPredict(p)
    \/ \E p \in Procs : LoadModel(p)
    \/ \E p \in Procs : BookFlush(p)
    \/ \E p \in Procs : BookCommit(p)
    \/ \E p \in Procs, id \in CancelIds : CancelRead(p, id)
    \/ \E p \in Procs : CancelCommit(p)
    \/ \E p \in Procs : FindSlots(p, 1, 0, 30)

SpecCore == Init /\ [][NextCore]_vars

\* C35: CANCELLED is absorbing: a row that is CANCELLED is still in the
\* table, and still CANCELLED, after every step of find_available_slots,
\* book_appointment and cancel_appointment.
C35_CancelledIsAbsorbing ==
    [][\A row \in appointments :
         row.status = "CANCELLED" =>
             \E after \in appointments' :
                 /\ after.id = row.id
                 /\ after.status = "CANCELLED"
                 /\ RowKey(after) = RowKey(row)]_vars

\* an appointment is CANCELLED; a booking of its (doctor, start) has been
\* refused and a find_available_slots call that offers its start has returned
C35_Witness ==
    \E row \in appointments :
        /\ row.status = "CANCELLED"
        /\ \E p \in Procs, q \in Procs :
               /\ p # q
               /\ pc[p] = "done" /\ req[p].op = "find"
               /\ T0900 \in SlotsOf(result[p])
               /\ Booked(q) /\ Validated(q)
               /\ BookedKey(q) = RowKey(row)
               /\ result[q] = SlotTaken

\* the doctors of the rows this step adds, removes or changes
ChangedDoctors ==
    {row.doctor_id :
        row \in (appointments' \ appointments) \cup (appointments \ appointments')}

\* this step is the commit of a book_appointment or cancel_appointment call
BookOrCancelCommits ==
    \E p \in Procs : pc[p] \in {"commit", "cancel_commit"} /\ pc'[p] = "done"

\* C36: the commit of a book_appointment or cancel_appointment call leaves
\* the result of find_available_slots as it was, for every date and
\* consultation length, for every doctor other than the doctor of the
\* appointment the call wrote.
C36_OtherDoctorsSlotsUnchanged ==
    [][BookOrCancelCommits =>
          \A doctor \in DoctorIds \ ChangedDoctors :
              \A date \in FindDates, c \in FindMinutes :
                  sorted(AvailableSlots(appointments', doctor, date, c))
                      = find_available_slots(doctor, date, c)]_vars

\* doctor 1 has an active appointment on Monday at 09:00, and
\* find_available_slots for doctor 2 has just offered Monday 09:00
C36_Witness ==
    \E p \in Procs :
        /\ pc[p] = "done"
        /\ req[p] = FindRequest(2, 0, 30)
        /\ T0900 \in SlotsOf(result[p])
        /\ \E row \in appointments :
               /\ row.doctor_id = 1
               /\ row.status \in ActiveStatus
               /\ row.appointment_datetime = T0900
        /\ T0900 \notin AvailableSlots(appointments, 1, 0, 30)

(***************************************************************************)
(* Failures: callers booking with valid and invalid arguments, under a     *)
(* model whose scoring raises, while the database may fail the queries,    *)
(* the flush or the commit.  A thread that is inside a call goes on        *)
(* running: weak fairness of each thread's steps.                          *)
(***************************************************************************)
FailureRequests ==
    {BookRequest(11, 1, 1, IsoString(T0900), 30),
     BookRequest(UnknownPatientId, 1, 1, NaiveDatetime(T0900), 30),
     BookRequest(11, 1, 1, NoDatetime, 30)}

FailureModelFiles == {ModelFile("ok", RaisingModel)}

\* the steps of a thread that is inside book_appointment
BookStep(p) ==
    \/ BookPredict(p)
    \/ LoadModel(p)
    \/ BookFlush(p)
    \/ BookCommit(p)

NextFailures ==
    \/ \E p \in Procs, r \in FailureRequests : BookValidate(p, r)
    \/ \E p \in Procs, r \in FailureRequests : BookQueryFailure(p, r)
    \/ \E p \in Procs : BookStorageFailure(p)
    \/ \E p \in Procs : BookStep(p)

SpecFailures ==
    /\ InitWith(FailureModelFiles)
    /\ [][NextFailures]_vars
    /\ \A p \in Procs : WF_vars(BookStep(p))

InvertedAvailability ==
    {AvailabilityRowWithId(1, 1, 0, TimeAt(9, 0), TimeAt(9, 45), TRUE),
     AvailabilityRowWithId(2, 1, 0, TimeAt(9, 30), TimeAt(9, 30), TRUE),
     AvailabilityRowWithId(3, 1, 0, TimeAt(9, 15), TimeAt(9, 0), TRUE)}

WalkAvailabilityConfigs == {OverlappingAvailability, InvertedAvailability}

InitWalk ==
    /\ now = Now0
    /\ appointments = {}
    /\ next_id = 1
    /\ availability \in WalkAvailabilityConfigs
    /\ model_file \in NoModelFile
    /\ column_arithmetic = "raises"
    /\ MODEL_SINGLETON = << >>
    /\ constructed = 0
    /\ pc = [p \in Procs |-> "idle"]
    /\ req = [p \in Procs |-> [op |-> "none"]]
    /\ appointment_dt = [p \in Procs |-> None]
    /\ features = [p \in Procs |-> NoFeatures]
    /\ probability = [p \in Procs |-> None]
    /\ pending = [p \in Procs |-> << >>]
    /\ result = [p \in Procs |-> Failure("")]
    /\ call_no = [p \in Procs |-> 0]
    /\ calls = 0
    /\ key_at_start = [p \in Procs |-> "none"]
    /\ raced = [p \in Procs |-> FALSE]

SpecWalk == InitWalk /\ [][NextSlots]_vars

\* thread p's last call was find_available_slots and has returned
FindReturned(p) == pc[p] = "done" /\ req[p].op = "find"

\* quarter hours in two hours: more iterations than any window of the walk
\* tables admits for the consultation lengths asked
WalkSteps == (2 * SecondsPerHour) \div Minutes(SLOT_INCREMENT_MINUTES)

\* the loop of find_available_slots over row a for the call of thread p
WalkOf(p, a) ==
    Walk(Days(req[p].date) + a.start_time, Days(req[p].date) + a.end_time,
         req[p].consultation_minutes, WalkSteps)

\* C38: find_available_slots terminates for every consultation length,
\* zero and negative ones included, and every window, those whose end is
\* not after their start included: the loop over a window ends within a
\* bounded number of iterations, the candidates it visits start at the
\* window's start and are 15 minutes apart, each candidate plus the
\* consultation length is within the window's end and the first instant
\* not visited plus the consultation length is past it; the slots returned
\* are among the visited candidates.
C38_WalkTerminates ==
    \A p \in Procs :
        FindReturned(p) =>
            LET rows == EnabledRows(req[p].doctor_id, Weekday(Days(req[p].date)))
                c == Minutes(req[p].consultation_minutes)
            IN  /\ \A a \in rows :
                       LET w == WalkOf(p, a)
                           start_dt == Days(req[p].date) + a.start_time
                           end_dt == Days(req[p].date) + a.end_time
                           n == Len(w.visited)
                       IN  /\ w.ended
                           /\ n < WalkSteps
                           /\ \A i \in 1 .. n :
                                  /\ w.visited[i] =
                                         start_dt + (i - 1) * Minutes(15)
                                  /\ w.visited[i] + c <= end_dt
                           /\ start_dt + n * Minutes(15) + c > end_dt
                           /\ {w.visited[i] : i \in 1 .. n} =
                                  Candidates(a, req[p].date,
                                             req[p].consultation_minutes)
                /\ SlotsOf(result[p]) \subseteq
                       UNION {{WalkOf(p, a).visited[i] :
                                  i \in 1 .. Len(WalkOf(p, a).visited)} :
                              a \in rows}

\* find_available_slots has returned slots for a consultation length that
\* is not positive, under a table with a window that ends before it starts
\* and whose walk visited a candidate
C38_Witness ==
    \E p \in Procs :
        /\ FindReturned(p)
        /\ req[p].consultation_minutes <= 0
        /\ Len(result[p].slots) > 0
        /\ \E a \in EnabledRows(req[p].doctor_id, Weekday(Days(req[p].date))) :
               /\ a.end_time < a.start_time
               /\ Len(WalkOf(p, a).visited) > 0

====
